---- MODULE Spec2Model ----
(***************************************************************************)
(* Family-tree sharing backend: the remote tables "trees" and              *)
(* "tree_invitations", and the request handlers that read and write them.  *)
(*                                                                         *)
(* A handler is a chain of phases, one per remote call                     *)
(* (supabase ... .execute()); what it computes locally before its first    *)
(* call or after a call belongs to that call's phase.  A phase maps the    *)
(* tables and the handler's locals to the tables and the locals after it.  *)
(* Under Spec one worker serves the requests one at a time, each handler   *)
(* running from its first phase to its response in one action; SpecPerm    *)
(* does the same for the handlers of public and private trees and their    *)
(* membership lists; under SpecConc two workers run the same phases one    *)
(* remote call at a time.                                                  *)
(***************************************************************************)
EXTENDS Integers, Sequences, FiniteSets, TLC

\* ---------------------------------------------------------------- universe
Users == {"u1", "u2", "u3"}          \* registered accounts (auth user ids)
NoUser == "none"                     \* no "user_id" in the session
UnknownEmail == "nobody"             \* an e-mail no account has
Creators == {"u1"}                   \* the accounts that create trees here
TreeIds == {"t1"}
NoTree == "none"
Tokens == {"k1"}
NoToken == "none"
Roles == {"editor", "viewer"}
PayloadRoles == Roles \cup {"admin"} \* "admin": a role the handlers refuse
Workers == {"w1", "w2"}              \* request workers of the web server
SerialWorker == "w1"

MaxTime == 1                         \* the clock runs 0..MaxTime
MaxLimit == 1                        \* usage limits asked for: none, 1..MaxLimit
InviteTTL == 1                       \* timedelta(days=365), in clock ticks

MaxId == 2                           \* person ids run 1..MaxId
PersonIds == 1..MaxId
Folders == {"images", "documents"}   \* f"{type}s" of the two upload types
FileNames == {"f1"}                  \* uuid4 names of the stored objects
OtherTree == "t2"                    \* the id of a tree of somebody else
Processes == {"p1", "p2"}            \* server processes, each with its new_ids_dict

NoLimit == <<>>                      \* usage_limit is None
Limits == {NoLimit} \cup {<<n>> : n \in 1..MaxLimit}

VARIABLES
    trees,          \* table "trees": tree id -> row
    invitations,    \* table "tree_invitations": token -> row
    persons,        \* table "persons": tree id -> person id -> data of the row
    files,          \* bucket "tree_files": the paths of the stored objects
    new_ids_dict,   \* each process's cache of the last id given out, per tree
    now,            \* datetime.now(timezone.utc)
    join_token,     \* tokens kept as session["join_token"] by anonymous visitors
    req,            \* per worker: the request it serves, its locals, its response
    granted         \* history: token -> users process_invitation wrote into a tree

vars ==
    <<trees, invitations, persons, files, new_ids_dict, now, join_token, req,
      granted>>

\* what a phase reads and writes
DB ==
    [trees |-> trees, invitations |-> invitations, persons |-> persons,
     files |-> files, new_ids_dict |-> new_ids_dict, now |-> now,
     join_token |-> join_token, granted |-> granted]

\* ---------------------------------------------------------------- lists
\* x in list
Contains(s, x) == \E i \in 1..Len(s) : s[i] = x

\* list.remove(x): drops the first occurrence
ListRemove(s, x) ==
    IF ~Contains(s, x) THEN s
    ELSE LET i == CHOOSE k \in 1..Len(s) :
                      s[k] = x /\ \A j \in 1..(k - 1) : s[j] # x
         IN  SubSeq(s, 1, i - 1) \o SubSeq(s, i + 1, Len(s))

ElemsOf(s) == {s[i] : i \in 1..Len(s)}

\* ---------------------------------------------------------------- rows
\* spent: the table has given the id out; it gives no id out twice
AbsentTree ==
    [exists |-> FALSE, spent |-> FALSE, owner_id |-> NoUser,
     editor_ids |-> <<>>, viewer_ids |-> <<>>, is_public |-> FALSE,
     allow_file_uploads |-> FALSE]

\* the row of a tree that was deleted
DeletedTree == [AbsentTree EXCEPT !.spent = TRUE]

AbsentInvitation ==
    [exists |-> FALSE, tree_id |-> NoTree, role |-> "none", expires_at |-> 0,
     usage_limit |-> NoLimit, used_by_users |-> <<>>]

\* ---------------------------------------------------------------- strings
\* A URL or a storage path is the sequence of its pieces: a run of white
\* space, a scheme with its colon, a slash-separated segment.  A path
\* "a/b/c" is <<"a", "b", "c">>; the URL "/api/tree/t/file/a/b/c" is
\* <<"/", "api/tree", t, "file", "a", "b", "c">>.
NoUrl == <<>>                        \* "", or no such key

\* str.startswith
StartsWith(s, prefix) ==
    /\ Len(s) >= Len(prefix)
    /\ SubSeq(s, 1, Len(prefix)) = prefix

\* str.lower, piece by piece
LowerPiece(piece) ==
    CASE piece = "JavaScript:" -> "javascript:"
      [] piece = "HTTP:" -> "http:"
      [] OTHER -> piece

Lower(s) == [i \in 1..Len(s) |-> LowerPiece(s[i])]

\* str.strip
RECURSIVE Strip(_)
Strip(s) ==
    IF s = <<>> THEN s
    ELSE IF Head(s) = " " THEN Strip(Tail(s))
    ELSE IF s[Len(s)] = " " THEN Strip(SubSeq(s, 1, Len(s) - 1))
    ELSE s

\* api_file_prefix = f"/api/tree/{tree_id}/file/"
api_file_prefix(tree_id) == <<"/", "api/tree", tree_id, "file">>

\* url.replace(api_file_prefix, ""), for a url that starts with the prefix
\* and does not hold it a second time: the path in the bucket
PathOfUrl(url, tree_id) == SubSeq(url, Len(api_file_prefix(tree_id)) + 1, Len(url))

\* "/api/tree/" + str(tree_id) + "/file/" + file_path
UrlOfPath(tree_id, file_path) == api_file_prefix(tree_id) \o file_path

\* ---------------------------------------------------------------- person rows
\* data["photo"]: a string, or an object with a "url"
NoPhoto == [kind |-> "str", url |-> NoUrl]

\* the tree has no person rows
NoPersons == <<>>

\* a worker that serves no request
Idle ==
    [pc |-> "idle", route |-> "none", user |-> NoUser, tree |-> NoTree,
     token |-> NoToken, target |-> NoUser, role |-> "none", limit |-> NoLimit,
     name |-> "", is_public |-> FALSE,
     editor_ids |-> <<>>, viewer_ids |-> <<>>, used |-> <<>>,
     csrf |-> FALSE, status |-> 0, ret |-> "none"]

\* a request at its handler's first phase, with a valid CSRF token
Request(route) == [Idle EXCEPT !.pc = route, !.route = route, !.csrf = TRUE]

\* the handler's locals once it has returned: the response, with the route
\* and the target it answers
Response(r, status, ret) ==
    [Idle EXCEPT !.pc = "done", !.route = r.route, !.target = r.target,
                 !.status = status, !.ret = ret]

\* the response to a visitor of an invitation link, with the session user
JoinResponse(r, status, ret) ==
    [Response(r, status, ret) EXCEPT !.user = r.user]

\* the locals of the handlers of a tree's persons and files and of
\* delete_tree
DataIdle ==
    [pc |-> "idle", route |-> "none", user |-> NoUser, tree |-> NoTree,
     csrf |-> FALSE, payload |-> "none", add |-> <<>>, modify |-> <<>>,
     delete |-> <<>>, files_to_delete |-> {}, type |-> "none",
     upload |-> "none", file_path |-> <<>>, fail |-> "none", id |-> 0,
     proc |-> "p1", status |-> 0]

\* a request to one of these handlers, with a valid CSRF token
DataRequest(route) ==
    [DataIdle EXCEPT !.pc = route, !.route = route, !.csrf = TRUE]

\* the response of one of these handlers, with the session user and the tree
\* it answers
DataResponse(r, status) ==
    [DataIdle EXCEPT !.pc = "done", !.route = r.route, !.user = r.user,
                     !.tree = r.tree, !.proc = r.proc, !.fail = r.fail,
                     !.status = status]

\* the response of a decorator that refuses the request
Refusal(r, status) ==
    [Idle EXCEPT !.pc = "done", !.route = r.route, !.status = status]

\* a phase's result: the tables and the locals after it
Out(db, r) == [db |-> db, r |-> r]

\* routes that are wrapped by login_required only
DecoratorsLoginOnly(route) == <<"login_required">>

\* ---------------------------------------------------------------- decorators
\* the decorators of each view function, outermost first (no_cache hands the
\* view's response on as it is)
Decorators(route) ==
    CASE route \in {"create_tree", "delete_tree", "get_new_id",
                    "batch_update_persons", "upload_file", "create_invitation",
                    "expire_invitation_link", "share_tree",
                    "revoke_tree_access", "change_tree_permission"} ->
             <<"login_required", "csrf_protect_api">>
      [] route = "get_family_tree_info" -> <<"csrf_protect_api">>
      [] OTHER -> <<>>

\* the status a decorator answers with; 0 when it calls the function it wraps
login_required(r) == IF r.user = NoUser THEN 401 ELSE 0

\* csrf.protect() raises when the request brings no valid token
csrf_protect_api(r) == IF ~r.csrf THEN 403 ELSE 0

\* the status the first decorator that refuses answers with; 0 when the view
\* function runs
RECURSIVE Decorated(_, _)
Decorated(decorators, r) ==
    IF decorators = <<>> THEN 0
    ELSE LET status == IF Head(decorators) = "login_required"
                       THEN login_required(r)
                       ELSE csrf_protect_api(r)
         IN  IF status # 0 THEN status ELSE Decorated(Tail(decorators), r)

\* no person rows, no stored objects, an empty cache
NoData ==
    /\ persons = [t \in TreeIds |-> NoPersons]
    /\ files = {}
    /\ new_ids_dict = [p \in Processes |-> [t \in TreeIds |-> 0]]

Init ==
    /\ trees = [t \in TreeIds |-> AbsentTree]
    /\ invitations = [k \in Tokens |-> AbsentInvitation]
    /\ NoData
    /\ now = 0
    /\ join_token = {}
    /\ req = [w \in Workers |-> Idle]
    /\ granted = [k \in Tokens |-> {}]

\* ---------------------------------------------------------------- create_tree
TreeLeft(db) == \E t \in TreeIds : ~db.trees[t].spent

\* the insert gives the row a fresh id; no id is used twice; the table
\* fills the columns the insert does not name (allow_file_uploads)
create_tree(db, r) ==
    IF r.name = "" THEN Out(db, Response(r, 400, "none"))
    ELSE LET t == CHOOSE x \in TreeIds : ~db.trees[x].spent
             row == [exists |-> TRUE, spent |-> TRUE, owner_id |-> r.user,
                     editor_ids |-> <<>>,
                     viewer_ids |-> <<>>, is_public |-> r.is_public,
                     allow_file_uploads |-> TRUE]
         IN  Out([db EXCEPT !.trees[t] = row], Response(r, 201, t))

\* ---------------------------------------------------------------- permissions
\* a permission resolver that lets viewers edit
permissions_viewer_edits(db, tree_id, user_id) ==
    LET tree_data == db.trees[tree_id] IN
    [found |-> tree_data.exists,
     can_edit |-> /\ tree_data.exists
                  /\ user_id # NoUser
                  /\ \/ tree_data.owner_id = user_id
                     \/ Contains(tree_data.editor_ids, user_id)
                     \/ Contains(tree_data.viewer_ids, user_id),
     can_view |-> /\ tree_data.exists
                  /\ \/ tree_data.is_public
                     \/ /\ user_id # NoUser
                        /\ \/ tree_data.owner_id = user_id
                           \/ Contains(tree_data.editor_ids, user_id)
                           \/ Contains(tree_data.viewer_ids, user_id)]

\* get_tree_and_user_permissions; None (found = FALSE) when .single() raises
get_tree_and_user_permissions(db, tree_id, user_id) ==
    LET tree_data == db.trees[tree_id] IN
    IF ~tree_data.exists
    THEN [found |-> FALSE, can_edit |-> FALSE, can_view |-> FALSE]
    ELSE LET can_view0 == tree_data.is_public
             is_owner  == tree_data.owner_id = user_id
             is_editor == Contains(tree_data.editor_ids, user_id)
             is_viewer == Contains(tree_data.viewer_ids, user_id)
         IN  IF user_id # NoUser
             THEN [found |-> TRUE,
                   can_edit |-> is_owner \/ is_editor,
                   can_view |-> can_view0 \/ is_owner \/ is_editor \/ is_viewer]
             ELSE [found |-> TRUE, can_edit |-> FALSE, can_view |-> can_view0]

\* GET /api/tree/{id}: 404, 403, or 200 with editable = can_edit
get_family_tree_info(db, r) ==
    LET permissions == get_tree_and_user_permissions(db, r.tree, r.user) IN
    IF ~permissions.found THEN Out(db, Response(r, 404, "none"))
    ELSE IF ~permissions.can_view THEN Out(db, Response(r, 403, "none"))
    ELSE Out(db, Response(r, 200, IF permissions.can_edit THEN "editable:true"
                                  ELSE "editable:false"))

\* ---------------------------------------------------------------- share_tree
\* a step 3 that overlooks the viewers
ShareUpdateButViewers(tree_data, owner_id, user_to_add_id, role) ==
    IF \/ user_to_add_id = owner_id
       \/ Contains(tree_data.editor_ids, user_to_add_id)
    THEN [status |-> 409, editor_ids |-> tree_data.editor_ids,
          viewer_ids |-> tree_data.viewer_ids]
    ELSE IF role = "editor"
    THEN [status |-> 200,
          editor_ids |-> Append(tree_data.editor_ids, user_to_add_id),
          viewer_ids |-> tree_data.viewer_ids]
    ELSE [status |-> 200, editor_ids |-> tree_data.editor_ids,
          viewer_ids |-> Append(tree_data.viewer_ids, user_to_add_id)]

\* a step 3 that overlooks the owner
ShareUpdateButOwner(tree_data, owner_id, user_to_add_id, role) ==
    IF \/ Contains(tree_data.editor_ids, user_to_add_id)
       \/ Contains(tree_data.viewer_ids, user_to_add_id)
    THEN [status |-> 409, editor_ids |-> tree_data.editor_ids,
          viewer_ids |-> tree_data.viewer_ids]
    ELSE IF role = "editor"
    THEN [status |-> 200,
          editor_ids |-> Append(tree_data.editor_ids, user_to_add_id),
          viewer_ids |-> tree_data.viewer_ids]
    ELSE [status |-> 200, editor_ids |-> tree_data.editor_ids,
          viewer_ids |-> Append(tree_data.viewer_ids, user_to_add_id)]

\* step 3 of share_tree on the row read in step 1: 409, or the two lists
\* after the append
ShareUpdate(tree_data, owner_id, user_to_add_id, role) ==
    IF \/ user_to_add_id = owner_id
       \/ Contains(tree_data.editor_ids, user_to_add_id)
       \/ Contains(tree_data.viewer_ids, user_to_add_id)
    THEN [status |-> 409, editor_ids |-> tree_data.editor_ids,
          viewer_ids |-> tree_data.viewer_ids]
    ELSE IF role = "editor"
    THEN [status |-> 200,
          editor_ids |-> Append(tree_data.editor_ids, user_to_add_id),
          viewer_ids |-> tree_data.viewer_ids]
    ELSE [status |-> 200, editor_ids |-> tree_data.editor_ids,
          viewer_ids |-> Append(tree_data.viewer_ids, user_to_add_id)]

\* the role check, the select of the row, the owner check, the e-mail lookup
\* and the membership check; of the two lists the locals keep the one the
\* update writes
share_tree(db, r) ==
    LET tree_data == db.trees[r.tree]
        upd == ShareUpdate(tree_data, r.user, r.target, r.role)
    IN  IF r.role \notin Roles THEN Out(db, Response(r, 400, "none"))
        ELSE IF ~tree_data.exists THEN Out(db, Response(r, 404, "none"))
        ELSE IF tree_data.owner_id # r.user THEN Out(db, Response(r, 403, "none"))
        ELSE IF r.target \notin Users THEN Out(db, Response(r, 404, "none"))
        ELSE IF upd.status = 409 THEN Out(db, Response(r, 409, "none"))
        ELSE Out(db, [Idle EXCEPT !.pc = "share_tree_update",
                                  !.route = r.route, !.user = r.user,
                                  !.tree = r.tree, !.role = r.role,
                                  !.target = r.target,
                                  !.editor_ids = IF r.role = "editor"
                                                 THEN upd.editor_ids ELSE <<>>,
                                  !.viewer_ids = IF r.role = "viewer"
                                                 THEN upd.viewer_ids ELSE <<>>])

\* an update that stores nothing and reports success
share_tree_update_nothing(db, r) == Out(db, Response(r, 200, "none"))

\* update({column: list}).eq("id", tree_id): one column; no row, no change
UpdateTreeColumn(trs, tree_id, column, list) ==
    IF ~trs[tree_id].exists THEN trs
    ELSE IF column = "editor_ids"
    THEN [trs EXCEPT ![tree_id].editor_ids = list]
    ELSE [trs EXCEPT ![tree_id].viewer_ids = list]

share_tree_update(db, r) ==
    LET trs == IF r.role = "editor"
               THEN UpdateTreeColumn(db.trees, r.tree, "editor_ids", r.editor_ids)
               ELSE UpdateTreeColumn(db.trees, r.tree, "viewer_ids", r.viewer_ids)
    IN  Out([db EXCEPT !.trees = trs], Response(r, 200, "none"))

\* ---------------------------------------------------------------- revoke_tree_access
\* which list revoke_tree_access rewrites ("none": 404) and the lists after
\* the remove
RevokeUpdate(tree_data, user_id_to_revoke) ==
    IF Contains(tree_data.editor_ids, user_id_to_revoke)
    THEN [column |-> "editor_ids",
          editor_ids |-> ListRemove(tree_data.editor_ids, user_id_to_revoke),
          viewer_ids |-> tree_data.viewer_ids]
    ELSE IF Contains(tree_data.viewer_ids, user_id_to_revoke)
    THEN [column |-> "viewer_ids", editor_ids |-> tree_data.editor_ids,
          viewer_ids |-> ListRemove(tree_data.viewer_ids, user_id_to_revoke)]
    ELSE [column |-> "none", editor_ids |-> tree_data.editor_ids,
          viewer_ids |-> tree_data.viewer_ids]

revoke_tree_access(db, r) ==
    LET tree_data == db.trees[r.tree]
        upd == RevokeUpdate(tree_data, r.target)
    IN  IF ~tree_data.exists THEN Out(db, Response(r, 404, "none"))
        ELSE IF tree_data.owner_id # r.user THEN Out(db, Response(r, 403, "none"))
        ELSE IF r.target = r.user THEN Out(db, Response(r, 400, "none"))
        ELSE IF upd.column = "none" THEN Out(db, Response(r, 404, "none"))
        ELSE Out(db, [Idle EXCEPT !.pc = "revoke_tree_access_update",
                                  !.route = r.route, !.user = r.user,
                                  !.tree = r.tree, !.role = upd.column,
                                  !.target = r.target,
                                  !.editor_ids = IF upd.column = "editor_ids"
                                                 THEN upd.editor_ids ELSE <<>>,
                                  !.viewer_ids = IF upd.column = "viewer_ids"
                                                 THEN upd.viewer_ids ELSE <<>>])

revoke_tree_access_update(db, r) ==
    LET trs == IF r.role = "editor_ids"
               THEN UpdateTreeColumn(db.trees, r.tree, "editor_ids", r.editor_ids)
               ELSE UpdateTreeColumn(db.trees, r.tree, "viewer_ids", r.viewer_ids)
    IN  Out([db EXCEPT !.trees = trs],
            [Response(r, 200, "none") EXCEPT !.tree = r.tree])

\* ---------------------------------------------------------------- change_tree_permission
\* a step 2 that leaves the user in the list of the old role
ChangeUpdateKeepsOld(tree_data, user_id_to_change, new_role) ==
    IF /\ ~Contains(tree_data.editor_ids, user_id_to_change)
       /\ ~Contains(tree_data.viewer_ids, user_id_to_change)
    THEN [status |-> 404, editor_ids |-> tree_data.editor_ids,
          viewer_ids |-> tree_data.viewer_ids]
    ELSE IF new_role = "editor"
    THEN [status |-> 200,
          editor_ids |-> Append(ListRemove(tree_data.editor_ids,
                                           user_id_to_change),
                                user_id_to_change),
          viewer_ids |-> tree_data.viewer_ids]
    ELSE [status |-> 200, editor_ids |-> tree_data.editor_ids,
          viewer_ids |-> Append(ListRemove(tree_data.viewer_ids,
                                           user_id_to_change),
                                user_id_to_change)]

\* step 2 of change_tree_permission: 404, or both lists after the removes
\* and the append
ChangeUpdate(tree_data, user_id_to_change, new_role) ==
    IF /\ ~Contains(tree_data.editor_ids, user_id_to_change)
       /\ ~Contains(tree_data.viewer_ids, user_id_to_change)
    THEN [status |-> 404, editor_ids |-> tree_data.editor_ids,
          viewer_ids |-> tree_data.viewer_ids]
    ELSE LET e == ListRemove(tree_data.editor_ids, user_id_to_change)
             v == ListRemove(tree_data.viewer_ids, user_id_to_change)
         IN  IF new_role = "editor"
             THEN [status |-> 200, editor_ids |-> Append(e, user_id_to_change),
                   viewer_ids |-> v]
             ELSE [status |-> 200, editor_ids |-> e,
                   viewer_ids |-> Append(v, user_id_to_change)]

change_tree_permission(db, r) ==
    LET tree_data == db.trees[r.tree]
        upd == ChangeUpdate(tree_data, r.target, r.role)
    IN  IF r.role \notin Roles THEN Out(db, Response(r, 400, "none"))
        ELSE IF ~tree_data.exists THEN Out(db, Response(r, 404, "none"))
        ELSE IF tree_data.owner_id # r.user THEN Out(db, Response(r, 403, "none"))
        ELSE IF r.target = r.user THEN Out(db, Response(r, 400, "none"))
        ELSE IF upd.status = 404 THEN Out(db, Response(r, 404, "none"))
        ELSE Out(db, [Idle EXCEPT !.pc = "change_tree_permission_update",
                                  !.route = r.route, !.user = r.user,
                                  !.tree = r.tree,
                                  !.editor_ids = upd.editor_ids,
                                  !.viewer_ids = upd.viewer_ids])

\* update({"editor_ids": ..., "viewer_ids": ...}): both columns in one write
change_tree_permission_update(db, r) ==
    LET trs == IF ~db.trees[r.tree].exists THEN db.trees
               ELSE [db.trees EXCEPT ![r.tree].editor_ids = r.editor_ids,
                                     ![r.tree].viewer_ids = r.viewer_ids]
    IN  Out([db EXCEPT !.trees = trs], Response(r, 200, "none"))

\* a first phase that lets any user create an invitation
create_invitation_by_anyone(db, r) ==
    IF ~db.trees[r.tree].exists THEN Out(db, Response(r, 404, "none"))
    ELSE IF r.role \notin Roles THEN Out(db, Response(r, 400, "none"))
    ELSE Out(db, [Idle EXCEPT !.pc = "create_invitation_insert",
                              !.route = r.route, !.user = r.user,
                              !.tree = r.tree, !.role = r.role,
                              !.limit = r.limit])

\* ---------------------------------------------------------------- create_invitation
\* the select of owner_id, the owner check, then the role check
create_invitation(db, r) ==
    IF ~db.trees[r.tree].exists THEN Out(db, Response(r, 404, "none"))
    ELSE IF db.trees[r.tree].owner_id # r.user THEN Out(db, Response(r, 403, "none"))
    ELSE IF r.role \notin Roles THEN Out(db, Response(r, 400, "none"))
    ELSE Out(db, [Idle EXCEPT !.pc = "create_invitation_insert",
                              !.route = r.route, !.user = r.user,
                              !.tree = r.tree, !.role = r.role,
                              !.limit = r.limit])

\* the insert; the table gives the row its token
create_invitation_insert(db, r) ==
    LET k == CHOOSE x \in Tokens : ~db.invitations[x].exists
        row == [exists |-> TRUE, tree_id |-> r.tree, role |-> r.role,
                expires_at |-> db.now + InviteTTL, usage_limit |-> r.limit,
                used_by_users |-> <<>>]
    IN  Out([db EXCEPT !.invitations[k] = row], Response(r, 200, k))

\* ---------------------------------------------------------------- expire_invitation_link
\* a first phase that lets any user revoke a link
expire_by_anyone(db, r) ==
    IF ~db.trees[r.tree].exists THEN Out(db, Response(r, 404, "none"))
    ELSE Out(db, [Idle EXCEPT !.pc = "expire_invitation_link_update",
                              !.route = r.route, !.user = r.user,
                              !.tree = r.tree, !.token = r.token])

\* the select of owner_id and the owner check
expire_invitation_link(db, r) ==
    IF ~db.trees[r.tree].exists THEN Out(db, Response(r, 404, "none"))
    ELSE IF db.trees[r.tree].owner_id # r.user THEN Out(db, Response(r, 403, "none"))
    ELSE Out(db, [Idle EXCEPT !.pc = "expire_invitation_link_update",
                              !.route = r.route, !.user = r.user,
                              !.tree = r.tree, !.token = r.token])

\* .eq("token", ..).eq("tree_id", ..) matches a row
InvitationOfTree(db, token, tree_id) ==
    /\ db.invitations[token].exists
    /\ db.invitations[token].tree_id = tree_id

\* update({"expires_at": now}).eq("token", ..).eq("tree_id", ..); no row
\* matched: 404
expire_invitation_link_update(db, r) ==
    IF InvitationOfTree(db, r.token, r.tree)
    THEN Out([db EXCEPT !.invitations[r.token].expires_at = db.now],
             Response(r, 200, "none"))
    ELSE Out(db, Response(r, 404, "none"))

\* ---------------------------------------------------------------- join_by_token
\* join_by_token's own test of the row it selected: TRUE when the link is
\* refused (no row, expired, or full)
JoinRefused(invitation, time) ==
    LET is_expired == invitation.expires_at < time
        usage_limit == invitation.usage_limit
        is_full == /\ usage_limit # NoLimit
                   /\ Len(invitation.used_by_users) >= usage_limit[1]
    IN  ~invitation.exists \/ is_expired \/ is_full

\* the select and the test; a visitor without a session keeps the token and
\* is sent to the login page
join_by_token(db, r) ==
    IF JoinRefused(db.invitations[r.token], db.now)
    THEN Out(db, JoinResponse(r, 400, "none"))
    ELSE IF r.user # NoUser
    THEN Out(db, [r EXCEPT !.pc = "process_invitation"])
    ELSE Out([db EXCEPT !.join_token = @ \cup {r.token}],
             JoinResponse(r, 302, "login"))

\* ---------------------------------------------------------------- process_invitation
\* what the caller answers for process_invitation's result (a tree id or
\* None): join_by_token 302 to the tree or 500; login 302 to the tree or home
ProcessInvitationReturn(r, result) ==
    IF r.route = "join_by_token"
    THEN IF result # NoTree THEN JoinResponse(r, 302, result)
         ELSE JoinResponse(r, 500, "none")
    ELSE JoinResponse(r, 302, IF result # NoTree THEN result ELSE "home")

\* tests that let one user more than usage_limit through
InvitationCheckOneMore(invitation, user_id_str, time) ==
    IF ~invitation.exists THEN "invalid"
    ELSE IF invitation.expires_at < time THEN "expired"
    ELSE IF /\ invitation.usage_limit # NoLimit
            /\ Len(invitation.used_by_users) > invitation.usage_limit[1]
    THEN "full"
    ELSE IF Contains(invitation.used_by_users, user_id_str) THEN "used"
    ELSE "first"

\* the tests on the invitation row, in the order of the code
InvitationCheck(invitation, user_id_str, time) ==
    IF ~invitation.exists THEN "invalid"
    ELSE IF invitation.expires_at < time THEN "expired"
    ELSE IF /\ invitation.usage_limit # NoLimit
            /\ Len(invitation.used_by_users) >= invitation.usage_limit[1]
    THEN "full"
    ELSE IF Contains(invitation.used_by_users, user_id_str) THEN "used"
    ELSE "first"

\* the select of the invitation row and the tests on it
process_invitation(db, r) ==
    LET invitation == db.invitations[r.token]
        check == InvitationCheck(invitation, r.user, db.now)
    IN  IF check \in {"invalid", "expired", "full"}
        THEN Out(db, ProcessInvitationReturn(r, NoTree))
        ELSE IF check = "used"
        THEN Out(db, ProcessInvitationReturn(r, invitation.tree_id))
        ELSE Out(db, [r EXCEPT !.pc = "process_invitation_tree",
                               !.tree = invitation.tree_id,
                               !.role = invitation.role,
                               !.used = invitation.used_by_users])

\* a membership test that overlooks the viewers
is_member_but_viewers(tree, user_id_str) ==
    \/ user_id_str = tree.owner_id
    \/ Contains(tree.editor_ids, user_id_str)

is_already_member(tree, user_id_str) ==
    \/ user_id_str = tree.owner_id
    \/ Contains(tree.editor_ids, user_id_str)
    \/ Contains(tree.viewer_ids, user_id_str)

\* the select of the tree row and the membership test; .single() raises on
\* a missing row and the except branch returns None
process_invitation_tree(db, r) ==
    LET tree == db.trees[r.tree] IN
    IF ~tree.exists THEN Out(db, ProcessInvitationReturn(r, NoTree))
    ELSE IF is_already_member(tree, r.user)
    THEN Out(db, [r EXCEPT !.pc = "process_invitation_used"])
    ELSE Out(db, [r EXCEPT !.pc = "process_invitation_grant",
                           !.editor_ids = IF r.role = "editor"
                                          THEN Append(tree.editor_ids, r.user)
                                          ELSE <<>>,
                           !.viewer_ids = IF r.role = "viewer"
                                          THEN Append(tree.viewer_ids, r.user)
                                          ELSE <<>>])

\* the update of editor_ids or of viewer_ids
process_invitation_grant(db, r) ==
    LET trs == IF r.role = "editor"
               THEN UpdateTreeColumn(db.trees, r.tree, "editor_ids", r.editor_ids)
               ELSE UpdateTreeColumn(db.trees, r.tree, "viewer_ids", r.viewer_ids)
    IN  Out([db EXCEPT !.trees = trs, !.granted[r.token] = @ \cup {r.user}],
            [r EXCEPT !.pc = "process_invitation_used",
                      !.editor_ids = <<>>, !.viewer_ids = <<>>])

\* a usage record that gets the user twice
used_by_list_twice(used_by_users, user_id_str) ==
    Append(Append(used_by_users, user_id_str), user_id_str)

\* used_by_users + [user_id_str], from the list read at the start
updated_used_by_list(used_by_users, user_id_str) ==
    Append(used_by_users, user_id_str)

\* the update of used_by_users, and the return of the tree id
process_invitation_used(db, r) ==
    LET invs == IF ~db.invitations[r.token].exists THEN db.invitations
                ELSE [db.invitations EXCEPT ![r.token].used_by_users =
                          updated_used_by_list(r.used, r.user)]
    IN  Out([db EXCEPT !.invitations = invs], ProcessInvitationReturn(r, r.tree))

\* a remote call of process_invitation raises: the except branch prints the
\* error and returns None, and what was written before stays written
process_invitation_raises(db, r) == Out(db, ProcessInvitationReturn(r, NoTree))

\* ---------------------------------------------------------------- get_new_id
\* the greatest id of the tree's person rows; 0 when it has none
\* (order("id", desc=True).limit(1))
MaxPersonId(db, tree_id) ==
    LET ids == DOMAIN db.persons[tree_id]
    IN  IF ids = {} THEN 0 ELSE CHOOSE i \in ids : \A j \in ids : j <= i

\* the permission check, then the cache: an entry gives new_id = entry + 1
\* without a look at the table
get_new_id(db, r) ==
    LET permissions == get_tree_and_user_permissions(db, r.tree, r.user)
        new_id == db.new_ids_dict[r.proc][r.tree] + 1
    IN  IF ~permissions.found THEN Out(db, DataResponse(r, 404))
        ELSE IF ~permissions.can_edit THEN Out(db, DataResponse(r, 403))
        ELSE IF db.new_ids_dict[r.proc][r.tree] # 0
        THEN Out([db EXCEPT !.new_ids_dict[r.proc][r.tree] = new_id],
                 [DataResponse(r, 200) EXCEPT !.id = new_id])
        ELSE Out(db, [r EXCEPT !.pc = "get_new_id_select"])

\* a select whose result is written to the caches of all processes
get_new_id_select_shared(db, r) ==
    LET new_id == MaxPersonId(db, r.tree) + 1
    IN  Out([db EXCEPT !.new_ids_dict =
                 [p \in Processes |-> [@[p] EXCEPT ![r.tree] = new_id]]],
            [DataResponse(r, 200) EXCEPT !.id = new_id])

\* no entry: the select of the greatest id, and the entry is written
get_new_id_select(db, r) ==
    LET new_id == MaxPersonId(db, r.tree) + 1
    IN  Out([db EXCEPT !.new_ids_dict[r.proc][r.tree] = new_id],
            [DataResponse(r, 200) EXCEPT !.id = new_id])

\* ---------------------------------------------------------------- storage
\* storage.list(path): the names right under the folder path, the names of
\* its sub-folders among them; it does not descend
StorageList(fs, path) ==
    {f[Len(path) + 1] : f \in {g \in fs : StartsWith(g, path) /\ Len(g) > Len(path)}}

\* storage.remove(paths): the objects that have exactly these paths go
StorageRemove(fs, paths) == fs \ paths

\* ---------------------------------------------------------------- upload_file
\* upload_file without the test of the tree's allow_file_uploads flag
upload_file_whatever_flag(db, r) ==
    LET permissions == get_tree_and_user_permissions(db, r.tree, r.user)
    IN  IF ~permissions.found THEN Out(db, DataResponse(r, 404))
        ELSE IF ~permissions.can_edit THEN Out(db, DataResponse(r, 403))
        ELSE IF r.type \notin {"image", "document"}
        THEN Out(db, DataResponse(r, 400))
        ELSE IF r.upload \in {"none", "unnamed"} THEN Out(db, DataResponse(r, 400))
        ELSE IF r.type = "image" /\ r.upload = "garbage"
        THEN Out(db, DataResponse(r, 500))
        ELSE Out(db, [r EXCEPT !.pc = "upload_file_upload"])

\* the permission check, the tests of the request, and the image is decoded
\* (Image.open raises on what is no image)
upload_file(db, r) ==
    LET permissions == get_tree_and_user_permissions(db, r.tree, r.user)
    IN  IF ~permissions.found THEN Out(db, DataResponse(r, 404))
        ELSE IF ~permissions.can_edit THEN Out(db, DataResponse(r, 403))
        ELSE IF ~db.trees[r.tree].allow_file_uploads
        THEN Out(db, DataResponse(r, 403))
        ELSE IF r.type \notin {"image", "document"}
        THEN Out(db, DataResponse(r, 400))
        ELSE IF r.upload \in {"none", "unnamed"} THEN Out(db, DataResponse(r, 400))
        ELSE IF r.type = "image" /\ r.upload = "garbage"
        THEN Out(db, DataResponse(r, 500))
        ELSE Out(db, [r EXCEPT !.pc = "upload_file_upload"])

\* the folder f"{type}s" with a name left for a new object
FolderOf(type) == IF type = "image" THEN "images" ELSE "documents"

NameLeft(db, tree_id, type) ==
    \E n \in FileNames : <<tree_id, FolderOf(type), n>> \notin db.files

\* storage.upload under f"{tree_id}/{type}s/{uuid4}"
upload_file_upload(db, r) ==
    LET n == CHOOSE x \in FileNames : <<r.tree, FolderOf(r.type), x>> \notin db.files
        file_path == <<r.tree, FolderOf(r.type), n>>
    IN  Out([db EXCEPT !.files = @ \cup {file_path}],
            [DataResponse(r, 200) EXCEPT !.file_path = file_path])

\* ---------------------------------------------------------------- serve_protected_file
\* serve_protected_file without the test of the path's prefix
serve_protected_file_any_path(db, r) ==
    LET permissions == get_tree_and_user_permissions(db, r.tree, r.user)
    IN  IF ~permissions.found THEN Out(db, DataResponse(r, 404))
        ELSE IF ~permissions.can_view THEN Out(db, DataResponse(r, 403))
        ELSE Out(db, [r EXCEPT !.pc = "serve_protected_file_sign"])

\* the permission check and the test of the path's prefix f"{tree_id}/"
serve_protected_file(db, r) ==
    LET permissions == get_tree_and_user_permissions(db, r.tree, r.user)
        expected_prefix == <<r.tree>>
    IN  IF ~permissions.found THEN Out(db, DataResponse(r, 404))
        ELSE IF ~permissions.can_view THEN Out(db, DataResponse(r, 403))
        ELSE IF ~(StartsWith(r.file_path, expected_prefix) /\ Len(r.file_path) > 1)
        THEN Out(db, DataResponse(r, 400))
        ELSE Out(db, [r EXCEPT !.pc = "serve_protected_file_sign"])

\* create_signed_url: the redirect to the signed URL of the path, or the
\* storage knows no such object and raises
serve_protected_file_sign(db, r) ==
    IF r.file_path \in db.files
    THEN Out(db, [DataResponse(r, 302) EXCEPT !.file_path = r.file_path])
    ELSE Out(db, DataResponse(r, 500))

\* ---------------------------------------------------------------- delete_tree
\* a first phase that lets any user delete a tree
delete_by_anyone(db, r) ==
    IF ~db.trees[r.tree].exists THEN Out(db, DataResponse(r, 404))
    ELSE Out(db, [r EXCEPT !.pc = "delete_tree_persons"])

\* the select of owner_id and the owner check
delete_tree(db, r) ==
    IF ~db.trees[r.tree].exists THEN Out(db, DataResponse(r, 404))
    ELSE IF db.trees[r.tree].owner_id # r.user THEN Out(db, DataResponse(r, 403))
    ELSE Out(db, [r EXCEPT !.pc = "delete_tree_persons"])

\* persons.delete().eq("tree_id", ..)
delete_tree_persons(db, r) ==
    Out([db EXCEPT !.persons[r.tree] = NoPersons],
        [r EXCEPT !.pc = "delete_tree_list"])

\* storage.list(path=tree_id) and the paths f"{tree_id}/{file['name']}"
delete_tree_list(db, r) ==
    LET files_in_storage == StorageList(db.files, <<r.tree>>)
        file_paths_to_remove == {<<r.tree, name>> : name \in files_in_storage}
    IN  IF file_paths_to_remove = {}
        THEN Out(db, [r EXCEPT !.pc = "delete_tree_delete"])
        ELSE Out(db, [r EXCEPT !.pc = "delete_tree_remove",
                               !.files_to_delete = file_paths_to_remove])

\* storage.remove(file_paths_to_remove)
delete_tree_remove(db, r) ==
    Out([db EXCEPT !.files = StorageRemove(@, r.files_to_delete)],
        [r EXCEPT !.pc = "delete_tree_delete", !.files_to_delete = {}])

\* trees.delete().eq("id", ..)
delete_tree_delete(db, r) ==
    Out([db EXCEPT !.trees[r.tree] = DeletedTree], DataResponse(r, 200))

\* ---------------------------------------------------------------- batch_update_persons
\* the check of one url: stripped and lower-cased, not empty, and of no
\* valid scheme or of a dangerous one
IllegalUrl(url) ==
    LET photo_url == Lower(Strip(url))
    IN  /\ photo_url # NoUrl
        /\ LET is_valid_scheme == \/ StartsWith(photo_url, <<"http:">>)
                                   \/ StartsWith(photo_url, <<"https:">>)
                                   \/ StartsWith(photo_url, <<"/">>)
               is_dangerous == \/ StartsWith(photo_url, <<"javascript:">>)
                               \/ StartsWith(photo_url, <<"data:">>)
                               \/ StartsWith(photo_url, <<"vbscript:">>)
           IN  ~is_valid_scheme \/ is_dangerous

\* the validation refuses person_data: its photo, when it is a string, or
\* the url of one of its documents is illegal
IllegalPerson(person_data) ==
    \/ person_data.photo.kind = "str" /\ IllegalUrl(person_data.photo.url)
    \/ \E url \in person_data.documents : IllegalUrl(url)

\* the permission check, the test of the payload and the validation of the
\* persons to add and to modify
batch_update_persons(db, r) ==
    LET permissions == get_tree_and_user_permissions(db, r.tree, r.user)
    IN  IF ~permissions.found THEN Out(db, DataResponse(r, 404))
        ELSE IF ~permissions.can_edit THEN Out(db, DataResponse(r, 403))
        ELSE IF r.payload # "object" THEN Out(db, DataResponse(r, 400))
        ELSE IF \E i \in 1..Len(r.add) : IllegalPerson(r.add[i])
        THEN Out(db, DataResponse(r, 400))
        ELSE IF \E i \in 1..Len(r.modify) : IllegalPerson(r.modify[i])
        THEN Out(db, DataResponse(r, 400))
        ELSE IF r.modify # <<>>
        THEN Out(db, [r EXCEPT !.pc = "batch_update_persons_modified"])
        ELSE IF r.delete # <<>>
        THEN Out(db, [r EXCEPT !.pc = "batch_update_persons_deleted"])
        ELSE Out(db, [r EXCEPT !.pc = "batch_update_persons_rpc"])

\* old_photo_url.startswith raises when the old photo is an object that
\* differs from the new photo
PhotoCompareRaises(old_data, new_data) ==
    old_data.photo.kind = "dict" /\ old_data.photo # new_data.photo

\* the paths scheduled for a modified person: the old photo when it differs
\* from the new one, and the old documents the new data does not name, of
\* those under the prefix
ModifiedFiles(old_data, new_data, tree_id) ==
    LET old_photo_url == old_data.photo.url
        photo == IF /\ old_photo_url # NoUrl
                    /\ old_data.photo # new_data.photo
                    /\ StartsWith(old_photo_url, api_file_prefix(tree_id))
                 THEN {PathOfUrl(old_photo_url, tree_id)} ELSE {}
        old_docs_urls == {url \in old_data.documents :
                             StartsWith(url, api_file_prefix(tree_id))}
        new_docs_urls == new_data.documents
        deleted_docs_urls == old_docs_urls \ new_docs_urls
    IN  photo \cup {PathOfUrl(url, tree_id) : url \in deleted_docs_urls}

\* the select of the rows of the persons to modify, and what it schedules
batch_update_persons_modified(db, r) ==
    LET current_persons_data == db.persons[r.tree]
        found == {i \in 1..Len(r.modify) :
                     r.modify[i].id \in DOMAIN current_persons_data}
        scheduled == UNION {ModifiedFiles(current_persons_data[r.modify[i].id],
                                          r.modify[i], r.tree) : i \in found}
    IN  IF \E i \in found :
               PhotoCompareRaises(current_persons_data[r.modify[i].id], r.modify[i])
        THEN Out(db, DataResponse(r, 500))
        ELSE Out(db, [r EXCEPT !.pc = IF r.delete # <<>>
                                      THEN "batch_update_persons_deleted"
                                      ELSE "batch_update_persons_rpc",
                               !.files_to_delete = @ \cup scheduled])

\* the paths scheduled for a deleted person: its photo and its documents, of
\* those under the prefix
DeletedFiles(data, tree_id) ==
    LET photo_url == data.photo.url
        photo == IF /\ photo_url # NoUrl
                    /\ StartsWith(photo_url, api_file_prefix(tree_id))
                 THEN {PathOfUrl(photo_url, tree_id)} ELSE {}
        docs == {url \in data.documents :
                    url # NoUrl /\ StartsWith(url, api_file_prefix(tree_id))}
    IN  photo \cup {PathOfUrl(url, tree_id) : url \in docs}

\* the select of the rows of the persons to delete, and what it schedules
batch_update_persons_deleted(db, r) ==
    LET rows == ElemsOf(r.delete) \cap DOMAIN db.persons[r.tree]
        scheduled == UNION {DeletedFiles(db.persons[r.tree][i], r.tree) : i \in rows}
    IN  Out(db, [r EXCEPT !.pc = "batch_update_persons_rpc",
                          !.files_to_delete = @ \cup scheduled])

\* the data the table keeps for person_data: its photo and the urls of its
\* documents; the other keys (names, dates, links to relatives) take no
\* part in what the handlers decide
PersonRow(person_data) ==
    [photo |-> person_data.photo, documents |-> person_data.documents]

\* batch_update_persons_atomic refuses the batch: a person to add has the id
\* of a row of the tree, or of another person to add
RpcRaises(rows, persons_to_add) ==
    \/ \E i \in 1..Len(persons_to_add) : persons_to_add[i].id \in DOMAIN rows
    \/ \E i, j \in 1..Len(persons_to_add) :
         i < j /\ persons_to_add[i].id = persons_to_add[j].id

\* batch_update_persons_atomic: the rows of the tree after the inserts, the
\* updates of the rows that exist (the last data of an id counts) and the
\* deletes, all in one transaction
RpcRows(rows, persons_to_add, persons_to_modify, ids_to_delete) ==
    LET added == {persons_to_add[k].id : k \in 1..Len(persons_to_add)}
        ids == (DOMAIN rows \cup added) \ ElemsOf(ids_to_delete)
    IN  [i \in ids |->
            LET adds == {k \in 1..Len(persons_to_add) : persons_to_add[k].id = i}
                mods == {k \in 1..Len(persons_to_modify) :
                            persons_to_modify[k].id = i}
                last == CHOOSE k \in mods : \A j \in mods : j <= k
            IN  IF mods # {} THEN PersonRow(persons_to_modify[last])
                ELSE IF i \in DOMAIN rows THEN rows[i]
                ELSE PersonRow(persons_to_add[CHOOSE k \in adds : TRUE])]

\* a call that removes the scheduled files when the function has failed
batch_update_persons_rpc_removes(db, r) ==
    IF r.fail = "rpc" \/ RpcRaises(db.persons[r.tree], r.add)
    THEN Out([db EXCEPT !.files = StorageRemove(@, r.files_to_delete)],
             DataResponse(r, 500))
    ELSE LET rows == RpcRows(db.persons[r.tree], r.add, r.modify, r.delete)
             applied == [db EXCEPT !.persons[r.tree] = rows]
         IN  IF r.files_to_delete = {}
             THEN Out(applied, DataResponse(r, 200))
             ELSE Out(applied, [r EXCEPT !.pc = "batch_update_persons_remove"])

\* the call of batch_update_persons_atomic; it raises when the call fails or
\* the function refuses the batch, and nothing is applied
batch_update_persons_rpc(db, r) ==
    IF r.fail = "rpc" \/ RpcRaises(db.persons[r.tree], r.add)
    THEN Out(db, DataResponse(r, 500))
    ELSE LET rows == RpcRows(db.persons[r.tree], r.add, r.modify, r.delete)
             applied == [db EXCEPT !.persons[r.tree] = rows]
         IN  IF r.files_to_delete = {}
             THEN Out(applied, DataResponse(r, 200))
             ELSE Out(applied, [r EXCEPT !.pc = "batch_update_persons_remove"])

\* storage.remove(unique_files_to_delete); it raises when the call fails,
\* and the except branch answers 500
batch_update_persons_remove(db, r) ==
    IF r.fail = "remove" THEN Out(db, DataResponse(r, 500))
    ELSE Out([db EXCEPT !.files = StorageRemove(@, r.files_to_delete)],
             DataResponse(r, 200))

\* ---------------------------------------------------------------- requests
CreateTreeRequest(user, name, pub) ==
    [Request("create_tree") EXCEPT !.user = user, !.name = name, !.is_public = pub]

GetFamilyTreeInfoRequest(user, tree_id) ==
    [Request("get_family_tree_info") EXCEPT !.user = user, !.tree = tree_id]

ShareTreeRequest(user, tree_id, email, role) ==
    [Request("share_tree") EXCEPT !.user = user, !.tree = tree_id,
                                  !.target = email, !.role = role]

RevokeTreeAccessRequest(user, tree_id, user_id_to_revoke) ==
    [Request("revoke_tree_access") EXCEPT !.user = user, !.tree = tree_id,
                                          !.target = user_id_to_revoke]

ChangeTreePermissionRequest(user, tree_id, user_id_to_change, new_role) ==
    [Request("change_tree_permission") EXCEPT !.user = user, !.tree = tree_id,
         !.target = user_id_to_change, !.role = new_role]

CreateInvitationRequest(user, tree_id, role, limit) ==
    [Request("create_invitation") EXCEPT !.user = user, !.tree = tree_id,
                                         !.role = role, !.limit = limit]

ExpireInvitationLinkRequest(user, tree_id, token) ==
    [Request("expire_invitation_link") EXCEPT !.user = user, !.tree = tree_id,
                                              !.token = token]

JoinByTokenRequest(user, token) ==
    [Request("join_by_token") EXCEPT !.user = user, !.token = token]

\* login with a token kept in the session goes to process_invitation
\* without join_by_token's test
LoginRequest(user, token) ==
    [Request("process_invitation") EXCEPT !.route = "login", !.user = user,
                                          !.token = token]

GetNewIdRequest(user, tree_id) ==
    [DataRequest("get_new_id") EXCEPT !.user = user, !.tree = tree_id]

\* the request as it reaches server process p
OnProcess(r, p) == [r EXCEPT !.proc = p]

\* a person of the payload
Person(id, photo, documents) ==
    [id |-> id, photo |-> photo, documents |-> documents]

BatchUpdatePersonsRequest(user, tree_id, add, modify, delete) ==
    [DataRequest("batch_update_persons") EXCEPT !.user = user, !.tree = tree_id,
         !.payload = "object", !.add = add, !.modify = modify,
         !.delete = delete]

UploadFileRequest(user, tree_id, type, upload) ==
    [DataRequest("upload_file") EXCEPT !.user = user, !.tree = tree_id,
                                   !.type = type, !.upload = upload]

ServeProtectedFileRequest(user, tree_id, file_path) ==
    [DataRequest("serve_protected_file") EXCEPT !.user = user, !.tree = tree_id,
                                            !.file_path = file_path]

DeleteTreeRequest(user, tree_id) ==
    [DataRequest("delete_tree") EXCEPT !.user = user, !.tree = tree_id]

\* request r without a valid CSRF token
Forged(r) == [r EXCEPT !.csrf = FALSE]

\* request r from a browser without a session
Anonymous(r) == [r EXCEPT !.user = NoUser]

\* request r, during which the remote call named call fails
Failing(r, call) == [r EXCEPT !.fail = call]

\* ---------------------------------------------------------------- workers
\* the phase of the view function the locals r stand at
View(db, r) ==
    CASE r.pc = "create_tree" -> create_tree(db, r)
      [] r.pc = "get_family_tree_info" -> get_family_tree_info(db, r)
      [] r.pc = "share_tree" -> share_tree(db, r)
      [] r.pc = "share_tree_update" -> share_tree_update(db, r)
      [] r.pc = "revoke_tree_access" -> revoke_tree_access(db, r)
      [] r.pc = "revoke_tree_access_update" -> revoke_tree_access_update(db, r)
      [] r.pc = "change_tree_permission" -> change_tree_permission(db, r)
      [] r.pc = "change_tree_permission_update" ->
             change_tree_permission_update(db, r)
      [] r.pc = "create_invitation" -> create_invitation(db, r)
      [] r.pc = "create_invitation_insert" -> create_invitation_insert(db, r)
      [] r.pc = "expire_invitation_link" -> expire_invitation_link(db, r)
      [] r.pc = "expire_invitation_link_update" ->
             expire_invitation_link_update(db, r)
      [] r.pc = "join_by_token" -> join_by_token(db, r)
      [] r.pc = "process_invitation" -> process_invitation(db, r)
      [] r.pc = "process_invitation_tree" -> process_invitation_tree(db, r)
      [] r.pc = "process_invitation_grant" -> process_invitation_grant(db, r)
      [] r.pc = "process_invitation_used" -> process_invitation_used(db, r)
      [] r.pc = "get_new_id" -> get_new_id(db, r)
      [] r.pc = "get_new_id_select" -> get_new_id_select(db, r)
      [] r.pc = "upload_file" -> upload_file(db, r)
      [] r.pc = "upload_file_upload" -> upload_file_upload(db, r)
      [] r.pc = "serve_protected_file" -> serve_protected_file(db, r)
      [] r.pc = "serve_protected_file_sign" -> serve_protected_file_sign(db, r)
      [] r.pc = "delete_tree" -> delete_tree(db, r)
      [] r.pc = "delete_tree_persons" -> delete_tree_persons(db, r)
      [] r.pc = "delete_tree_list" -> delete_tree_list(db, r)
      [] r.pc = "delete_tree_remove" -> delete_tree_remove(db, r)
      [] r.pc = "delete_tree_delete" -> delete_tree_delete(db, r)
      [] r.pc = "batch_update_persons" -> batch_update_persons(db, r)
      [] r.pc = "batch_update_persons_modified" ->
             batch_update_persons_modified(db, r)
      [] r.pc = "batch_update_persons_deleted" ->
             batch_update_persons_deleted(db, r)
      [] r.pc = "batch_update_persons_rpc" -> batch_update_persons_rpc(db, r)
      [] r.pc = "batch_update_persons_remove" ->
             batch_update_persons_remove(db, r)

\* the request has just come in and a decorator of its view function
\* refuses it; the decorators refuse no request that has a user and a token
Stopped(r) ==
    /\ r.user = NoUser \/ ~r.csrf
    /\ r.pc = r.route
    /\ Decorated(Decorators(r.route), r) # 0

\* the phase the locals r stand at: the decorators answer, or the view
\* function goes on
Phase(db, r) ==
    IF Stopped(r)
    THEN Out(db, Refusal(r, Decorated(Decorators(r.route), r)))
    ELSE View(db, r)

\* the model has an id left for the row the phase r stands at inserts, for
\* the person id it gives out and for the object it stores
Room(db, r) ==
    /\ r.pc = "create_tree" /\ r.name # "" /\ ~Stopped(r) => TreeLeft(db)
    /\ r.pc = "create_invitation_insert" =>
         \E k \in Tokens : ~db.invitations[k].exists
    /\ r.pc \in {"get_new_id", "get_new_id_select"} =>
         Phase(db, r).r.id <= MaxId
    /\ r.pc = "upload_file_upload" => NameLeft(db, r.tree, r.type)

\* the handler from the phase r stands at to its response ("blocked": a
\* phase on the way has no room)
RECURSIVE Handle(_, _)
Handle(db, r) ==
    IF r.pc = "done" THEN Out(db, r)
    ELSE IF ~Room(db, r) THEN Out(db, [r EXCEPT !.pc = "blocked"])
    ELSE LET o == Phase(db, r) IN Handle(o.db, o.r)

Commit(w, o) ==
    /\ trees' = o.db.trees
    /\ invitations' = o.db.invitations
    /\ persons' = o.db.persons
    /\ files' = o.db.files
    /\ new_ids_dict' = o.db.new_ids_dict
    /\ join_token' = o.db.join_token
    /\ granted' = o.db.granted
    /\ req' = [req EXCEPT ![w] = o.r]
    /\ UNCHANGED now

\* a free worker takes request r and runs its handler to the response
Serve(w, r) ==
    /\ req[w].pc = "idle"
    /\ LET o == Handle(DB, r) IN o.r.pc = "done" /\ Commit(w, o)

\* the response is sent and the worker is free for the next request
Reply(w) ==
    /\ req[w].pc = "done"
    /\ req' = [req EXCEPT ![w] = Idle]
    /\ UNCHANGED <<trees, invitations, persons, files, new_ids_dict, now,
                   join_token, granted>>

\* the clock moves on between two requests
Tick ==
    /\ req[SerialWorker].pc = "idle"
    /\ now < MaxTime
    /\ now' = now + 1
    /\ UNCHANGED <<trees, invitations, persons, files, new_ids_dict,
                   join_token, req, granted>>

\* request r run to its response in store db, the remote call of phase
\* call of process_invitation raising
RECURSIVE HandleRaising(_, _, _)
HandleRaising(db, r, call) ==
    IF r.pc = "done" THEN Out(db, r)
    ELSE IF r.pc = call THEN process_invitation_raises(db, r)
    ELSE LET o == Phase(db, r) IN HandleRaising(o.db, o.r, call)

\* ---------------------------------------------------------------- one worker
CreateTree(w, user, name, pub) ==
    /\ user \in Creators
    /\ Serve(w, CreateTreeRequest(user, name, pub))

GetFamilyTreeInfo(w, user, tree_id) ==
    /\ tree_id \in TreeIds
    /\ Serve(w, GetFamilyTreeInfoRequest(user, tree_id))

ShareTree(w, user, tree_id, email, role) ==
    /\ user \in Users
    /\ Serve(w, ShareTreeRequest(user, tree_id, email, role))

RevokeTreeAccess(w, user, tree_id, user_id_to_revoke) ==
    /\ user \in Users
    /\ Serve(w, RevokeTreeAccessRequest(user, tree_id, user_id_to_revoke))

ChangeTreePermission(w, user, tree_id, user_id_to_change, new_role) ==
    /\ user \in Users
    /\ Serve(w, ChangeTreePermissionRequest(user, tree_id, user_id_to_change,
                                            new_role))

CreateInvitation(w, user, tree_id, role, limit) ==
    /\ user \in Users
    /\ Serve(w, CreateInvitationRequest(user, tree_id, role, limit))

ExpireInvitationLink(w, user, tree_id, token) ==
    /\ user \in Users
    /\ Serve(w, ExpireInvitationLinkRequest(user, tree_id, token))

JoinByToken(w, user, token) ==
    /\ token \in Tokens
    /\ Serve(w, JoinByTokenRequest(user, token))

Login(w, user, token) ==
    /\ token \in join_token
    /\ Serve(w, LoginRequest(user, token))

GetNewId(w, user, tree_id) ==
    /\ tree_id \in TreeIds
    /\ Serve(w, GetNewIdRequest(user, tree_id))

BatchUpdatePersons(w, user, tree_id, add, modify, delete, call) ==
    /\ tree_id \in TreeIds
    /\ Serve(w, Failing(BatchUpdatePersonsRequest(user, tree_id, add, modify,
                                                  delete), call))

UploadFile(w, user, tree_id, type, upload) ==
    /\ tree_id \in TreeIds
    /\ Serve(w, UploadFileRequest(user, tree_id, type, upload))

ServeProtectedFile(w, user, tree_id, file_path) ==
    /\ tree_id \in TreeIds
    /\ Serve(w, ServeProtectedFileRequest(user, tree_id, file_path))

DeleteTree(w, user, tree_id) ==
    /\ tree_id \in TreeIds
    /\ Serve(w, DeleteTreeRequest(user, tree_id))

\* the requests of the sharing and invitation handlers (private trees); a
\* request that is refused for its sender or for its role, whoever the
\* account it names, is made for one account
Next ==
    \/ Tick
    \/ Reply(SerialWorker)
    \/ \E u \in Creators, name \in {"", "Smith"} :
         CreateTree(SerialWorker, u, name, FALSE)
    \/ \E u \in Users, t \in TreeIds, e \in Users \cup {UnknownEmail},
          role \in PayloadRoles :
         /\ (u \notin Creators \/ role \notin Roles) => e = "u2"
         /\ ShareTree(SerialWorker, u, t, e, role)
    \/ \E u \in Users, t \in TreeIds, x \in Users :
         /\ u \notin Creators => x = "u2"
         /\ RevokeTreeAccess(SerialWorker, u, t, x)
    \/ \E u \in Users, t \in TreeIds, x \in Users, role \in PayloadRoles :
         /\ (u \notin Creators \/ role \notin Roles) => x = "u2"
         /\ ChangeTreePermission(SerialWorker, u, t, x, role)
    \/ \E u \in Users, t \in TreeIds, role \in PayloadRoles, limit \in Limits :
         CreateInvitation(SerialWorker, u, t, role, limit)
    \/ \E u \in Users, t \in TreeIds, k \in Tokens :
         ExpireInvitationLink(SerialWorker, u, t, k)
    \/ \E u \in Users \cup {NoUser}, k \in Tokens : JoinByToken(SerialWorker, u, k)
    \/ \E u \in Users, k \in Tokens : Login(SerialWorker, u, k)

Spec == Init /\ [][Next]_vars

\* ---------------------------------------------------------------- permissions of public and private trees
\* the requests that create trees, public or private, change their
\* membership lists and read them through get_tree_and_user_permissions
NextPerm ==
    \/ Reply(SerialWorker)
    \/ \E u \in Creators, pub \in BOOLEAN :
         CreateTree(SerialWorker, u, "Smith", pub)
    \/ \E u \in Users \cup {NoUser}, t \in TreeIds :
         GetFamilyTreeInfo(SerialWorker, u, t)
    \/ \E u \in Users, t \in TreeIds, e \in Users, role \in Roles :
         ShareTree(SerialWorker, u, t, e, role)
    \/ \E u \in Users, t \in TreeIds, x \in Users :
         RevokeTreeAccess(SerialWorker, u, t, x)
    \/ \E u \in Users, t \in TreeIds, x \in Users, role \in Roles :
         ChangeTreePermission(SerialWorker, u, t, x, role)

SpecPerm == Init /\ [][NextPerm]_vars

\* ---------------------------------------------------------------- the endpoints of a tree
\* the endpoints that change stored state
MutatingRoutes ==
    {"create_tree", "delete_tree", "batch_update_persons", "upload_file",
     "create_invitation", "expire_invitation_link", "share_tree",
     "revoke_tree_access", "change_tree_permission"}

\* a well-formed request of user to the mutating endpoint route, about
\* tree tree_id, invitation token and account x
MutatingRequest(route, user, tree_id, token, x) ==
    CASE route = "create_tree" -> CreateTreeRequest(user, "Smith", FALSE)
      [] route = "delete_tree" -> DeleteTreeRequest(user, tree_id)
      [] route = "batch_update_persons" ->
             BatchUpdatePersonsRequest(user, tree_id, <<>>, <<>>, <<1>>)
      [] route = "upload_file" -> UploadFileRequest(user, tree_id, "image", "file")
      [] route = "create_invitation" ->
             CreateInvitationRequest(user, tree_id, "viewer", NoLimit)
      [] route = "expire_invitation_link" ->
             ExpireInvitationLinkRequest(user, tree_id, token)
      [] route = "share_tree" -> ShareTreeRequest(user, tree_id, x, "viewer")
      [] route = "revoke_tree_access" -> RevokeTreeAccessRequest(user, tree_id, x)
      [] route = "change_tree_permission" ->
             ChangeTreePermissionRequest(user, tree_id, x, "editor")

\* a request to a mutating endpoint from a browser without a session
Unauthenticated(w, route, tree_id, token, x, csrf) ==
    /\ route \in MutatingRoutes
    /\ LET r == Anonymous(MutatingRequest(route, NoUser, tree_id, token, x))
       IN  Serve(w, IF csrf THEN r ELSE Forged(r))

\* a request of a logged-in user to a mutating endpoint without a valid
\* CSRF token
WithoutToken(w, route, user, tree_id, token, x) ==
    /\ route \in MutatingRoutes
    /\ user \in Users
    /\ Serve(w, Forged(MutatingRequest(route, user, tree_id, token, x)))

\* the operator of the deployment switches allow_file_uploads of a tree in
\* the database; no handler writes the column
SetAllowFileUploads(tree_id, flag) ==
    /\ \A w \in Workers : req[w].pc = "idle"
    /\ trees[tree_id].exists
    /\ trees[tree_id].allow_file_uploads # flag
    /\ trees' = [trees EXCEPT ![tree_id].allow_file_uploads = flag]
    /\ UNCHANGED <<invitations, persons, files, new_ids_dict, now, join_token,
                   req, granted>>

\* the persons of the payloads: no photo, no documents
PlainPersons == {Person(i, NoPhoto, {}) : i \in PersonIds}

\* at most one element of set S, as a list
UpToOne(S) == {<<>>} \cup {<<x>> : x \in S}

\* the paths asked of serve_protected_file: of this tree, of another one
ServedPaths ==
    {<<t, folder, n>> : t \in TreeIds \cup {OtherTree}, folder \in Folders,
                        n \in FileNames}

Member == "u2"                       \* the account the owner shares with

\* one tree from its creation to its deletion: the owner u1, the account u2
\* the owner shares with, the outsider u3 and visitors without a session or
\* without a CSRF token call every endpoint of the tree
NextApi ==
    \/ Reply(SerialWorker)
    \/ \E u \in Creators, pub \in BOOLEAN :
         CreateTree(SerialWorker, u, "Smith", pub)
    \/ \E t \in TreeIds, flag \in BOOLEAN : SetAllowFileUploads(t, flag)
    \/ \E u \in Users \cup {NoUser}, t \in TreeIds :
         GetFamilyTreeInfo(SerialWorker, u, t)
    \/ \E u \in Users, t \in TreeIds, role \in Roles :
         ShareTree(SerialWorker, u, t, Member, role)
    \/ \E u \in Users, t \in TreeIds : RevokeTreeAccess(SerialWorker, u, t, Member)
    \/ \E u \in Users, t \in TreeIds, role \in Roles :
         ChangeTreePermission(SerialWorker, u, t, Member, role)
    \/ \E u \in Users, t \in TreeIds :
         CreateInvitation(SerialWorker, u, t, "viewer", NoLimit)
    \/ \E u \in Users, t \in TreeIds, k \in Tokens :
         ExpireInvitationLink(SerialWorker, u, t, k)
    \/ \E u \in Users, t \in TreeIds : GetNewId(SerialWorker, u, t)
    \/ \E u \in Users, t \in TreeIds, add \in UpToOne(PlainPersons),
          modify \in UpToOne(PlainPersons), delete \in UpToOne(PersonIds) :
         BatchUpdatePersons(SerialWorker, u, t, add, modify, delete, "none")
    \/ \E u \in Users, t \in TreeIds, type \in {"image", "document", "video"},
          upload \in {"file", "none", "unnamed", "garbage"} :
         UploadFile(SerialWorker, u, t, type, upload)
    \/ \E u \in Users \cup {NoUser}, t \in TreeIds, path \in ServedPaths :
         ServeProtectedFile(SerialWorker, u, t, path)
    \/ \E u \in Users, t \in TreeIds : DeleteTree(SerialWorker, u, t)
    \/ \E route \in MutatingRoutes, t \in TreeIds, k \in Tokens, csrf \in BOOLEAN :
         Unauthenticated(SerialWorker, route, t, k, Member, csrf)
    \/ \E route \in MutatingRoutes, u \in Users, t \in TreeIds, k \in Tokens :
         WithoutToken(SerialWorker, route, u, t, k, Member)

SpecApi == Init /\ [][NextApi]_vars

\* ---------------------------------------------------------------- the persons and files of a tree
Editor == "u2"                       \* the editor of the tree t1 of u1

\* the url upload_file answers for a stored image and a stored document of
\* tree t1, and a url under t1's prefix that names an object of another tree
OwnImage == UrlOfPath("t1", <<"t1", "images", "f1">>)
OwnDocument == UrlOfPath("t1", <<"t1", "documents", "f1">>)
CrossTree == UrlOfPath("t1", <<OtherTree, "images", "f1">>)

\* urls the validation is to refuse, and urls it lets through
ScriptUrl == <<" ", "JavaScript:", "alert(1)">>
DataUrl == <<"data:", "text/html">>

StrPhoto(url) == [kind |-> "str", url |-> url]
DictPhoto(url) == [kind |-> "dict", url |-> url]

\* the persons of the payloads
BatchPhotos ==
    {NoPhoto, StrPhoto(OwnImage), StrPhoto(CrossTree), StrPhoto(ScriptUrl),
     DictPhoto(ScriptUrl)}

BatchDocuments == {{}, {OwnDocument}, {DataUrl}, {OwnImage}}

BatchPersons ==
    {Person(i, photo, documents) :
        i \in PersonIds, photo \in BatchPhotos, documents \in BatchDocuments}

\* the remote calls of batch_update_persons that fail in a run, or none
BatchCalls == {"none", "rpc", "remove"}

\* the tree t1 of u1 with the editor u2, no persons yet, and in the bucket
\* an object of another tree
InitBatch ==
    /\ trees = [t \in TreeIds |->
                   [exists |-> TRUE, spent |-> TRUE, owner_id |-> "u1",
                    editor_ids |-> <<Editor>>, viewer_ids |-> <<>>,
                    is_public |-> FALSE, allow_file_uploads |-> TRUE]]
    /\ invitations = [k \in Tokens |-> AbsentInvitation]
    /\ persons = [t \in TreeIds |-> NoPersons]
    /\ files = {<<OtherTree, "images", "f1">>}
    /\ new_ids_dict = [p \in Processes |-> [t \in TreeIds |-> 0]]
    /\ now = 0
    /\ join_token = {}
    /\ req = [w \in Workers |-> Idle]
    /\ granted = [k \in Tokens |-> {}]

\* the editor uploads files and adds, modifies and deletes persons that name
\* them, the persons of the least and of the greatest id; a remote call of
\* a batch may fail
NextBatch ==
    \/ Reply(SerialWorker)
    \/ \E t \in TreeIds, type \in {"image", "document"} :
         UploadFile(SerialWorker, Editor, t, type, "file")
    \/ \E t \in TreeIds, p \in BatchPersons, call \in BatchCalls :
         /\ p.id \in {1, MaxId}
         /\ BatchUpdatePersons(SerialWorker, Editor, t, <<p>>, <<>>, <<>>, call)
    \/ \E t \in TreeIds, p \in BatchPersons, call \in BatchCalls :
         /\ p.id \in {1, MaxId}
         /\ BatchUpdatePersons(SerialWorker, Editor, t, <<>>, <<p>>, <<>>, call)
    \/ \E t \in TreeIds, i \in {1, MaxId}, call \in BatchCalls :
         BatchUpdatePersons(SerialWorker, Editor, t, <<>>, <<>>, <<i>>, call)

SpecBatch == InitBatch /\ [][NextBatch]_vars

\* ---------------------------------------------------------------- two workers
\* a free worker takes request r and runs its first phase; when both are
\* free the request goes to the first
Begin(w, r) ==
    /\ req[w].pc = "idle"
    /\ w # SerialWorker => req[SerialWorker].pc # "idle"
    /\ Room(DB, r)
    /\ LET o == Phase(DB, r) IN Commit(w, o)

\* a worker runs the next phase of its handler: one remote call
Step(w) ==
    /\ req[w].pc \notin {"idle", "done"}
    /\ Room(DB, req[w])
    /\ LET o == Phase(DB, req[w]) IN Commit(w, o)

BeginShareTree(w, user, tree_id, email, role) ==
    /\ user \in Users
    /\ Begin(w, ShareTreeRequest(user, tree_id, email, role))

BeginRevokeTreeAccess(w, user, tree_id, user_id_to_revoke) ==
    /\ user \in Users
    /\ Begin(w, RevokeTreeAccessRequest(user, tree_id, user_id_to_revoke))

BeginChangeTreePermission(w, user, tree_id, user_id_to_change, new_role) ==
    /\ user \in Users
    /\ Begin(w, ChangeTreePermissionRequest(user, tree_id, user_id_to_change,
                                            new_role))

BeginJoinByToken(w, user, token) ==
    /\ token \in Tokens
    /\ Begin(w, JoinByTokenRequest(user, token))

\* the tree t1 of u1, just created, and a viewer invitation to it for one
\* user or for two, just created
InitConc ==
    /\ trees = [t \in TreeIds |->
                   [exists |-> TRUE, spent |-> TRUE, owner_id |-> "u1",
                    editor_ids |-> <<>>,
                    viewer_ids |-> <<>>, is_public |-> FALSE,
                    allow_file_uploads |-> TRUE]]
    /\ \E limit \in {<<1>>, <<2>>} :
         invitations = [k \in Tokens |->
                           [exists |-> TRUE, tree_id |-> "t1", role |-> "viewer",
                            expires_at |-> InviteTTL, usage_limit |-> limit,
                            used_by_users |-> <<>>]]
    /\ NoData
    /\ now = 0
    /\ join_token = {}
    /\ req = [w \in Workers |-> Idle]
    /\ granted = [k \in Tokens |-> {}]

\* the owner's share, revoke and change requests and the users' joins, served
\* by two workers whose remote calls interleave
NextConc ==
    \/ \E w \in Workers : Reply(w)
    \/ \E w \in Workers : Step(w)
    \/ \E w \in Workers, t \in TreeIds, e \in Users, role \in Roles :
         BeginShareTree(w, "u1", t, e, role)
    \/ \E w \in Workers, t \in TreeIds, x \in Users :
         BeginRevokeTreeAccess(w, "u1", t, x)
    \/ \E w \in Workers, t \in TreeIds, x \in Users, role \in Roles :
         BeginChangeTreePermission(w, "u1", t, x, role)
    \/ \E w \in Workers, u \in Users, k \in Tokens : BeginJoinByToken(w, u, k)

SpecConc == InitConc /\ [][NextConc]_vars

\* the owner's share, revoke and change requests alone, served by two
\* workers whose remote calls interleave
NextShare ==
    \/ \E w \in Workers : Reply(w)
    \/ \E w \in Workers : Step(w)
    \/ \E w \in Workers, t \in TreeIds, e \in Users, role \in Roles :
         BeginShareTree(w, "u1", t, e, role)
    \/ \E w \in Workers, t \in TreeIds, x \in Users :
         BeginRevokeTreeAccess(w, "u1", t, x)
    \/ \E w \in Workers, t \in TreeIds, x \in Users, role \in Roles :
         BeginChangeTreePermission(w, "u1", t, x, role)

SpecShare == InitConc /\ [][NextShare]_vars

\* ---------------------------------------------------------------- identifiers
\* a worker of process p takes a get_new_id request and makes its first
\* remote call
BeginGetNewId(w, p, user, tree_id) ==
    /\ p \in Processes
    /\ Begin(w, OnProcess(GetNewIdRequest(user, tree_id), p))

\* the owner and the editor ask for identifiers, and the editor adds
\* persons; the requests for identifiers are served by two workers, of one
\* process or of two, whose remote calls interleave
NextIds ==
    \/ \E w \in Workers : Reply(w)
    \/ \E w \in Workers : Step(w)
    \/ \E w \in Workers, p \in Processes, u \in {"u1", Editor}, t \in TreeIds :
         BeginGetNewId(w, p, u, t)
    \/ \E t \in TreeIds, person \in PlainPersons :
         BatchUpdatePersons(SerialWorker, Editor, t, <<person>>, <<>>, <<>>, "none")

SpecIds == InitBatch /\ [][NextIds]_vars

\* ---------------------------------------------------------------- properties
\* what the specification calls owner, editor and viewer of tree t
IsOwner(t, u) == u # NoUser /\ trees[t].owner_id = u
IsEditor(t, u) == u # NoUser /\ Contains(trees[t].editor_ids, u)
IsViewer(t, u) == u # NoUser /\ Contains(trees[t].viewer_ids, u)

\* the response of the serial worker, when it has one
Answer == req[SerialWorker]
Answered(route) == Answer.pc = "done" /\ Answer.route = route

\* the serial worker is free: the next request is served in this state
Free == req[SerialWorker].pc = "idle"

\* request r, served in the present state, is answered with status and
\* leaves the tables as they are
Refused(r, status) ==
    LET o == Handle(DB, r)
    IN  /\ o.r.status = status
        /\ o.db.trees = trees
        /\ o.db.invitations = invitations

\* C1: for every existing tree and every acting user, or none,
\* get_tree_and_user_permissions gives can_view = is_public or owner or
\* editor or viewer and can_edit = owner or editor, nobody being the owner,
\* an editor or a viewer when there is no user; so a public tree is viewable
\* by all and an anonymous caller never edits and views iff the tree is
\* public; and the request that makes the call changes no stored state.
C1_Permissions ==
    \A t \in TreeIds, u \in Users \cup {NoUser} :
        Free /\ trees[t].exists =>
            LET p == get_tree_and_user_permissions(DB, t, u)
                o == Handle(DB, GetFamilyTreeInfoRequest(u, t))
            IN  /\ p.found
                /\ p.can_view = (\/ trees[t].is_public \/ IsOwner(t, u)
                                 \/ IsEditor(t, u) \/ IsViewer(t, u))
                /\ p.can_edit = (IsOwner(t, u) \/ IsEditor(t, u))
                /\ trees[t].is_public => p.can_view
                /\ u = NoUser => ~p.can_edit /\ p.can_view = trees[t].is_public
                /\ o.r.status = (IF p.can_view THEN 200 ELSE 403)
                /\ o.db = DB

\* a viewer of a public tree that also has an editor was told the tree is
\* not editable
C1_Witness ==
    /\ Answered("get_family_tree_info")
    /\ Answer.status = 200
    /\ Answer.ret = "editable:false"
    /\ \E t \in TreeIds :
         /\ trees[t].is_public
         /\ trees[t].editor_ids # <<>>
         /\ trees[t].viewer_ids # <<>>

\* the membership invariant of a tree row
MembershipInvariant(tree) ==
    /\ ~Contains(tree.editor_ids, tree.owner_id)
    /\ ~Contains(tree.viewer_ids, tree.owner_id)
    /\ ElemsOf(tree.editor_ids) \cap ElemsOf(tree.viewer_ids) = {}

\* C2: after any sequence of completed, non-overlapping share, revoke,
\* change-permission and invitation-join requests on a freshly created tree,
\* the owner is in neither editor_ids nor viewer_ids and no user is in both.
C2_MembershipSerial ==
    \A t \in TreeIds : trees[t].exists => MembershipInvariant(trees[t])

\* a join through an invitation has just been answered with the tree, which
\* has an editor and a viewer, one of them there through the invitation
C2_Witness ==
    /\ Answered("join_by_token")
    /\ Answer.ret \in TreeIds
    /\ \E t \in TreeIds, k \in Tokens :
         /\ trees[t].editor_ids # <<>>
         /\ trees[t].viewer_ids # <<>>
         /\ granted[k] # {}
         /\ invitations[k].tree_id = t

\* C3 (refuted by the code): the membership invariant holds in every
\* reachable state also when share, change-permission and invitation-join
\* requests on one tree interleave, one request reading the tree row before
\* another writes editor_ids or viewer_ids.
C3_MembershipInterleaved ==
    \A t \in TreeIds : MembershipInvariant(trees[t])

\* the invitation admits no user any more: its limit is reached
Exhausted(invitation) ==
    /\ invitation.usage_limit # NoLimit
    /\ Len(invitation.used_by_users) >= invitation.usage_limit[1]

Expired(invitation, time) == invitation.expires_at < time

\* request r, served in the present state, gives no tree and leaves the
\* tables as they are
GivesNoTree(r) ==
    LET o == Handle(DB, r)
    IN  /\ o.r.ret \notin TreeIds
        /\ o.db.trees = trees
        /\ o.db.invitations = invitations

\* C4: with usage_limit = N and non-overlapping join attempts, at most N
\* distinct users are ever granted access through the invitation; once N
\* distinct users have consumed it, a join attempt by any further user, from
\* the link or after the login, returns no tree and changes neither the
\* tree's lists nor used_by_users.
C4_UsageLimitSerial ==
    \A k \in Tokens :
        LET invitation == invitations[k]
            consumers == ElemsOf(invitation.used_by_users)
        IN  invitation.exists /\ invitation.usage_limit # NoLimit =>
                /\ Cardinality(granted[k]) <= invitation.usage_limit[1]
                /\ Free /\ Cardinality(consumers) >= invitation.usage_limit[1] =>
                     \A u \in Users \ consumers :
                         /\ GivesNoTree(JoinByTokenRequest(u, k))
                         /\ GivesNoTree(LoginRequest(u, k))

\* MaxLimit users were granted access through an invitation of that limit,
\* and a further user's join from the link has just been refused
C4_Witness ==
    /\ Answered("join_by_token")
    /\ Answer.status = 400
    /\ Answer.user \in Users
    /\ \E k \in Tokens :
         /\ invitations[k].usage_limit = <<MaxLimit>>
         /\ Cardinality(granted[k]) = MaxLimit
         /\ Answer.user \notin ElemsOf(invitations[k].used_by_users)

\* C5 (refuted by the code): when join attempts by distinct users on one
\* invitation interleave, the number of distinct users granted a role
\* through an invitation with usage_limit = N never exceeds N.
C5_UsageLimitInterleaved ==
    \A k \in Tokens :
        invitations[k].usage_limit # NoLimit =>
            Cardinality(granted[k]) <= invitations[k].usage_limit[1]

\* C6 (refuted by the code): for an unexpired invitation and every
\* usage_limit, reached or not, a join by a user already in used_by_users
\* returns the invitation's tree and leaves used_by_users and the tree's
\* lists unchanged.
C6_RejoinGivesTree ==
    \A k \in Tokens, u \in Users :
        LET invitation == invitations[k]
            o == Handle(DB, JoinByTokenRequest(u, k))
        IN  /\ Free
            /\ invitation.exists
            /\ ~Expired(invitation, now)
            /\ Contains(invitation.used_by_users, u)
            => /\ o.r.ret = invitation.tree_id
               /\ o.db.trees = trees
               /\ o.db.invitations = invitations

\* C7 (refuted by the code): an invitation that is expired or exhausted is
\* expired or exhausted in every later state, also when joins interleave.
C7_Terminal ==
    [][\A k \in Tokens :
          Expired(invitations[k], now) \/ Exhausted(invitations[k]) =>
              Expired(invitations'[k], now') \/ Exhausted(invitations'[k])]_vars

\* C8: share_tree, revoke_tree_access, change_tree_permission,
\* create_invitation and expire_invitation_link, called with a well-formed
\* payload by a logged-in user who is not the owner of the tree, an editor
\* included, return 403 and leave the tree row and every invitation
\* unchanged.
C8_OwnerOnly ==
    \A t \in TreeIds, u \in Users :
        Free /\ trees[t].exists /\ trees[t].owner_id # u =>
            /\ \A e \in Users \cup {UnknownEmail}, role \in Roles :
                 Refused(ShareTreeRequest(u, t, e, role), 403)
            /\ \A x \in Users : Refused(RevokeTreeAccessRequest(u, t, x), 403)
            /\ \A x \in Users, role \in Roles :
                 Refused(ChangeTreePermissionRequest(u, t, x, role), 403)
            /\ \A role \in Roles, limit \in Limits :
                 Refused(CreateInvitationRequest(u, t, role, limit), 403)
            /\ \A k \in Tokens :
                 Refused(ExpireInvitationLinkRequest(u, t, k), 403)

\* the revocation of an existing link of a tree that has an editor has just
\* been answered 403
C8_Witness ==
    /\ Answered("expire_invitation_link")
    /\ Answer.status = 403
    /\ \E t \in TreeIds, k \in Tokens :
         /\ trees[t].editor_ids # <<>>
         /\ invitations[k].exists
         /\ invitations[k].tree_id = t

\* C9: share_tree called by the owner for a user who is already in
\* editor_ids or viewer_ids returns 409 and leaves both lists unchanged,
\* whichever of the two roles is requested.
C9_DuplicateShare ==
    \A t \in TreeIds, x \in Users, role \in Roles :
        Free /\ trees[t].exists /\ (IsEditor(t, x) \/ IsViewer(t, x)) =>
            Refused(ShareTreeRequest(trees[t].owner_id, t, x, role), 409)

\* a share for a viewer of the tree has just been answered 409
C9_Witness ==
    /\ Answered("share_tree")
    /\ Answer.status = 409
    /\ \E t \in TreeIds : IsViewer(t, Answer.target)

\* request r, served in the present state, is answered with an error status
\* and leaves the tree rows as they are
Rejected(r) ==
    LET o == Handle(DB, r)
    IN  o.r.status \in {400, 403, 409} /\ o.db.trees = trees

\* C10: share_tree for the owner's own account, revoke_tree_access of the
\* owner and change_tree_permission of the owner are each rejected with an
\* error status and leave owner_id, editor_ids and viewer_ids unchanged,
\* whoever calls.
C10_OwnerStays ==
    \A t \in TreeIds, u \in Users :
        Free /\ trees[t].exists =>
            LET owner == trees[t].owner_id
            IN  /\ \A role \in PayloadRoles :
                     Rejected(ShareTreeRequest(u, t, owner, role))
                /\ Rejected(RevokeTreeAccessRequest(u, t, owner))
                /\ \A role \in PayloadRoles :
                     Rejected(ChangeTreePermissionRequest(u, t, owner, role))

\* the revocation of the owner's access has just been answered 400, the
\* tree having an editor and a viewer
C10_Witness ==
    /\ Answered("revoke_tree_access")
    /\ Answer.status = 400
    /\ \E t \in TreeIds :
         /\ trees[t].exists
         /\ Answer.target = trees[t].owner_id
         /\ trees[t].editor_ids # <<>>
         /\ trees[t].viewer_ids # <<>>

\* the owner's request to give u the role new_role on tree t, served in the
\* present state
OwnerChange(t, u, new_role) ==
    Handle(DB, ChangeTreePermissionRequest(trees[t].owner_id, t, u, new_role))

\* C11: a change_tree_permission(u, new_role) by the owner for a user u other
\* than the owner who is in exactly one of editor_ids and viewer_ids
\* succeeds and leaves u in the list of new_role and not in the other, the
\* two lists disjoint and every other user's membership as it was; for a
\* user other than the owner who is in neither list it returns 404 and
\* changes nothing.
C11_ChangePermission ==
    \A t \in TreeIds, u \in Users, new_role \in Roles :
        Free /\ trees[t].exists /\ u # trees[t].owner_id =>
            LET o == OwnerChange(t, u, new_role)
                after == o.db.trees[t]
                other == IF new_role = "editor" THEN after.viewer_ids
                         ELSE after.editor_ids
                mine == IF new_role = "editor" THEN after.editor_ids
                        ELSE after.viewer_ids
            IN  /\ IsEditor(t, u) # IsViewer(t, u) =>
                     /\ o.r.status = 200
                     /\ Contains(mine, u)
                     /\ ~Contains(other, u)
                     /\ ElemsOf(after.editor_ids) \cap ElemsOf(after.viewer_ids) = {}
                     /\ after.owner_id = trees[t].owner_id
                     /\ \A x \in Users \ {u} :
                          /\ Contains(after.editor_ids, x) = IsEditor(t, x)
                          /\ Contains(after.viewer_ids, x) = IsViewer(t, x)
                /\ ~IsEditor(t, u) /\ ~IsViewer(t, u) =>
                     /\ o.r.status = 404
                     /\ o.db = DB

\* the owner's change of a user's role has just succeeded, on a tree that
\* now has two viewers and no editor: an editor was made a viewer beside
\* another viewer, or a viewer stayed one
C11_Witness ==
    /\ Answered("change_tree_permission")
    /\ Answer.status = 200
    /\ \E t \in TreeIds :
         /\ Len(trees[t].viewer_ids) = 2
         /\ trees[t].editor_ids = <<>>

\* C11 as stated (refuted at the owner): whenever the user named in the
\* owner's change_tree_permission is in neither editor_ids nor viewer_ids,
\* the call returns 404 and changes nothing.
C11_NeitherGives404 ==
    \A t \in TreeIds, u \in Users, new_role \in Roles :
        Free /\ trees[t].exists /\ ~IsEditor(t, u) /\ ~IsViewer(t, u) =>
            LET o == OwnerChange(t, u, new_role)
            IN  o.r.status = 404 /\ o.db = DB

\* what the specification calls an illegal url: trimmed and lower-cased it
\* is not empty, and it begins with javascript:, data: or vbscript: or does
\* not begin with http:, https: or /
Illegal(url) ==
    LET u == Lower(Strip(url))
    IN  /\ u # NoUrl
        /\ \/ \E scheme \in {"javascript:", "data:", "vbscript:"} :
                StartsWith(u, <<scheme>>)
           \/ ~\E scheme \in {"http:", "https:", "/"} : StartsWith(u, <<scheme>>)

\* person p of a payload has an illegal photo url or document url
HasIllegalUrl(p) ==
    Illegal(p.photo.url) \/ \E url \in p.documents : Illegal(url)

\* the editor's batch with the persons add and modify, served in the present
\* state, is answered 400 and nothing stored has changed
BatchRejected(t, add, modify) ==
    LET o == Handle(DB, BatchUpdatePersonsRequest(Editor, t, add, modify, <<>>))
    IN  o.r.status = 400 /\ o.db = DB

\* C12 (refuted by the code): a batch of an editor in which a person to add
\* or to modify has an illegal photo url or document url is rejected with
\* 400 and nothing is written or removed, whatever else the batch holds.
C12_IllegalUrlRejected ==
    \A t \in TreeIds, p \in BatchPersons :
        Free /\ HasIllegalUrl(p) =>
            /\ BatchRejected(t, <<p>>, <<>>)
            /\ BatchRejected(t, <<>>, <<p>>)
            /\ \A q \in PlainPersons :
                 /\ BatchRejected(t, <<q, p>>, <<>>)
                 /\ BatchRejected(t, <<q>>, <<p>>)

\* the requests of user u on tree t that write persons, store or remove
\* files, or allocate an identifier
EditRequests(u, t) ==
    {GetNewIdRequest(u, t)}
      \cup {UploadFileRequest(u, t, type, "file") : type \in {"image", "document"}}
      \cup {BatchUpdatePersonsRequest(u, t, add, modify, delete) :
               add \in UpToOne(PlainPersons), modify \in UpToOne(PlainPersons),
               delete \in UpToOne(PersonIds)}

\* request r, served in the present state, is answered with status and
\* nothing stored has changed: no row, no object, no identifier given out
Turned(r, status) ==
    LET o == Handle(DB, r)
    IN  o.r.status = status /\ o.db = DB

\* C13: batch_update_persons, upload_file and get_new_id of a user with a
\* session write no person, store or remove no file and allocate no
\* identifier unless the user is the owner or an editor of the tree: a
\* viewer or non-member is answered 403 and a missing tree 404 with
\* everything stored unchanged, and upload_file of an owner or editor is
\* answered 403 and stores nothing when allow_file_uploads is false.
C13_EditGated ==
    \A t \in TreeIds, u \in Users :
        Free =>
            /\ \A r \in EditRequests(u, t) :
                 /\ ~trees[t].exists => Turned(r, 404)
                 /\ trees[t].exists /\ ~IsOwner(t, u) /\ ~IsEditor(t, u) =>
                        Turned(r, 403)
                 /\ Handle(DB, r).db # DB =>
                        trees[t].exists /\ (IsOwner(t, u) \/ IsEditor(t, u))
            /\ \A type \in {"image", "document"} :
                 trees[t].exists /\ ~trees[t].allow_file_uploads =>
                     /\ Turned(UploadFileRequest(u, t, type, "file"), 403)
                     /\ Handle(DB, UploadFileRequest(u, t, type, "file")).db.files
                            = files

\* the owner's upload was answered 403 on a tree whose uploads are switched
\* off
C13_Witness ==
    /\ Answered("upload_file")
    /\ Answer.status = 403
    /\ Answer.tree \in TreeIds
    /\ trees[Answer.tree].exists
    /\ IsOwner(Answer.tree, Answer.user)
    /\ ~trees[Answer.tree].allow_file_uploads

\* the editor's batches of one person to modify or one person to delete
OrphaningBatches(t) ==
    {BatchUpdatePersonsRequest(Editor, t, <<>>, <<p>>, <<>>) : p \in BatchPersons}
      \cup {BatchUpdatePersonsRequest(Editor, t, <<>>, <<>>, <<i>>) : i \in PersonIds}

MayView(t, u) ==
    trees[t].is_public \/ IsOwner(t, u) \/ IsEditor(t, u) \/ IsViewer(t, u)

\* C15: on an existing tree serve_protected_file answers with the redirect
\* (302) to a signed URL only when the requester may view the tree and the
\* path begins with the tree's identifier, and the URL signed is the one of
\* the path asked; a requester who may not view is answered 403, one who may
\* and asks a path under another tree's identifier 400, and nothing stored
\* changes.
C15_SignedUrlGated ==
    \A t \in TreeIds, u \in Users \cup {NoUser}, file_path \in ServedPaths :
        Free /\ trees[t].exists =>
            LET o == Handle(DB, ServeProtectedFileRequest(u, t, file_path))
            IN  /\ o.db = DB
                /\ o.r.status \in {302, 400, 403, 500}
                /\ o.r.status = 302 =>
                       /\ MayView(t, u)
                       /\ file_path[1] = t
                       /\ o.r.file_path = file_path
                /\ ~MayView(t, u) => o.r.status = 403
                /\ MayView(t, u) /\ file_path[1] # t => o.r.status = 400
                /\ o.r.status # 302 => o.r.file_path = DataIdle.file_path

\* a viewer of a private tree was redirected to the signed URL of a file
\* of the tree
C15_Witness ==
    /\ Answered("serve_protected_file")
    /\ Answer.status = 302
    /\ Answer.file_path[1] = Answer.tree
    /\ IsViewer(Answer.tree, Answer.user)
    /\ ~trees[Answer.tree].is_public

\* the stored objects under tree t's identifier, in a store fs
FilesOf(fs, t) == {f \in fs : f[1] = t}

\* C16 (refuted by the code): after delete_tree by the owner has answered
\* 200 the tree has no person row and no stored file under its identifier,
\* and its record is gone: every later lookup by any user gives 404.
C16_DeleteTreeCascades ==
    \A t \in TreeIds :
        Free /\ trees[t].exists =>
            LET o == Handle(DB, DeleteTreeRequest(trees[t].owner_id, t))
            IN  /\ o.r.status = 200
                /\ o.db.persons[t] = NoPersons
                /\ FilesOf(o.db.files, t) = {}
                /\ ~o.db.trees[t].exists
                /\ \A u \in Users \cup {NoUser} :
                     Handle(o.db, GetFamilyTreeInfoRequest(u, t)).r.status = 404

\* GET /api/tree/{t} by u in store db: the status and the body
Info(db, u, t) ==
    LET o == Handle(db, GetFamilyTreeInfoRequest(u, t))
    IN  <<o.r.status, o.r.ret>>

\* in store db, where a owns tree t and b is a viewer of it: GET gives
\* editable:false to b and editable:true to a, DELETE by b gives 403 and
\* changes nothing, DELETE by a gives 200, and then GET by a or by b gives 404
OwnerAndViewer(db, a, b, t) ==
    LET by_b == Handle(db, DeleteTreeRequest(b, t))
        by_a == Handle(by_b.db, DeleteTreeRequest(a, t))
    IN  /\ Info(db, b, t) = <<200, "editable:false">>
        /\ Info(db, a, t) = <<200, "editable:true">>
        /\ by_b.r.status = 403
        /\ by_b.db = db
        /\ by_a.r.status = 200
        /\ ~by_a.db.trees[t].exists
        /\ Info(by_a.db, a, t)[1] = 404
        /\ Info(by_a.db, b, t)[1] = 404

\* C17: the scenario, served request after request: user a creates a tree
\* (201, owner a) and shares it with user b as viewer (200); then, and in
\* every later state where a still owns the tree and b is still a viewer of
\* it, whatever persons and files it has got, GET gives editable:false to b
\* and editable:true to a, DELETE by b gives 403 and leaves the tree, its
\* persons and its members as they are, DELETE by a gives 200, and
\* afterwards GET by a or by b gives 404.
C17_Scenario ==
    \A a \in Users : \A b \in Users \ {a} :
        Free =>
            /\ \A pub \in BOOLEAN :
                 TreeLeft(DB) =>
                     LET created == Handle(DB, CreateTreeRequest(a, "Smith", pub))
                         t == created.r.ret
                         shared == Handle(created.db, ShareTreeRequest(a, t, b, "viewer"))
                     IN  /\ created.r.status = 201
                         /\ t \in TreeIds
                         /\ created.db.trees[t].exists
                         /\ created.db.trees[t].owner_id = a
                         /\ shared.r.status = 200
                         /\ shared.db.trees[t].viewer_ids = <<b>>
                         /\ OwnerAndViewer(shared.db, a, b, t)
            /\ \A t \in TreeIds :
                 trees[t].exists /\ IsOwner(t, a) /\ IsViewer(t, b) /\ ~IsEditor(t, b) =>
                     OwnerAndViewer(DB, a, b, t)

\* a viewer's DELETE of a tree that has a person was answered 403
C17_Witness ==
    /\ Answered("delete_tree")
    /\ Answer.status = 403
    /\ Answer.tree \in TreeIds
    /\ IsViewer(Answer.tree, Answer.user)
    /\ persons[Answer.tree] # NoPersons

\* request r is refused with status by a decorator: the worker answers in
\* its first step, the view function is not called, nothing stored changes
RefusedAtOnce(r, status) ==
    /\ Phase(DB, r) = Out(DB, Refusal(r, status))
    /\ Handle(DB, r) = Out(DB, Refusal(r, status))

\* C18: every mutating endpoint (create and delete tree, batch person
\* update, upload, create and revoke invitation, share, revoke, change
\* permission) answers a request without a session user with 401, with or
\* without a CSRF token, and a request with a session user but without a
\* valid CSRF token with 403; in both cases the view function is not called,
\* so no remote read or write is made and all stored state is unchanged.
C18_SessionAndCsrf ==
    \A route \in MutatingRoutes, t \in TreeIds, k \in Tokens, x \in Users :
        Free =>
            /\ LET r == Anonymous(MutatingRequest(route, NoUser, t, k, x))
               IN  RefusedAtOnce(r, 401) /\ RefusedAtOnce(Forged(r), 401)
            /\ \A u \in Users :
                 RefusedAtOnce(Forged(MutatingRequest(route, u, t, k, x)), 403)

\* a DELETE without a session was answered 401 and the tree, with a person
\* and a file, is there
C18_Witness ==
    /\ Answered("delete_tree")
    /\ Answer.status = 401
    /\ \E t \in TreeIds :
         trees[t].exists /\ persons[t] # NoPersons /\ FilesOf(files, t) # {}

\* C19 (refuted by the code): a get_new_id call of a user who may edit
\* tree t, served by the one process after the requests before it, gives
\* an identifier greater than the one given by the call before it and
\* greater than the identifier of every person in the tree's table, the
\* persons added by batches since the call before among them.
C19_NewIdIsFresh ==
    \A t \in TreeIds, u \in Users :
        Free /\ trees[t].exists =>
            LET o == Handle(DB, GetNewIdRequest(u, t))
            IN  o.r.status = 200 =>
                    /\ o.r.id > new_ids_dict[o.r.proc][t]
                    /\ \A i \in DOMAIN persons[t] : o.r.id > i

\* in store db at clock value time, neither a visit of the link of token
\* by user u nor u's login with the token kept in the session gives a tree
\* or changes the members of a tree or the invitations
LinkIsDead(db, time, token, u) ==
    LET at == [db EXCEPT !.now = time]
        visit == Handle(at, JoinByTokenRequest(u, token))
        login == Handle(at, LoginRequest(u, token))
    IN  /\ visit.r.ret \notin TreeIds
        /\ login.r.ret \notin TreeIds
        /\ visit.db = at
        /\ login.db = at

\* C20 (refuted by the code): after expire_invitation_link by the owner has
\* answered 200 for a token of the tree, a join with that token at any clock
\* value not earlier than the revocation, by a user who has not consumed it,
\* gives no tree and grants no role; and a token that is not of the given
\* tree is answered 404 with no invitation changed.
C20_RevokedLinkIsDead ==
    \A t \in TreeIds, token \in Tokens :
        Free /\ trees[t].exists =>
            LET o == Handle(DB, ExpireInvitationLinkRequest(trees[t].owner_id, t, token))
            IN  IF InvitationOfTree(DB, token, t)
                THEN /\ o.r.status = 200
                     /\ \A time \in now..MaxTime, u \in Users :
                          ~Contains(invitations[token].used_by_users, u) =>
                              LinkIsDead(o.db, time, token, u)
                ELSE o.r.status = 404 /\ o.db = DB

\* the outcome o of a first consumption of invitation k by user u in the
\* present state: the tree is returned, u is appended once to the usage
\* record, a non-member is appended to the list of the invitation's role
\* alone, and a member's lists are left as they are
FirstConsumption(o, k, u) ==
    LET invitation == invitations[k]
        t == invitation.tree_id
        tree == trees[t]
        after == o.db.trees[t]
    IN  /\ o.r.ret = t
        /\ o.db.invitations =
               [invitations EXCEPT ![k].used_by_users = Append(@, u)]
        /\ after.owner_id = tree.owner_id
        /\ IF is_already_member(tree, u)
           THEN after.editor_ids = tree.editor_ids
                /\ after.viewer_ids = tree.viewer_ids
           ELSE IF invitation.role = "editor"
           THEN after.editor_ids = Append(tree.editor_ids, u)
                /\ after.viewer_ids = tree.viewer_ids
           ELSE after.viewer_ids = Append(tree.viewer_ids, u)
                /\ after.editor_ids = tree.editor_ids

\* C21: a first consumption of a valid invitation by user u, through the
\* link or through the login that follows it, returns the tree and appends
\* u once to used_by_users; u is appended to exactly the list of the
\* invitation's role when u is not the owner, an editor or a viewer, and
\* editor_ids and viewer_ids are unchanged when u is already a member.
C21_FirstConsumption ==
    \A k \in Tokens, u \in Users :
        /\ Free
        /\ InvitationCheck(invitations[k], u, now) = "first"
        /\ trees[invitations[k].tree_id].exists
        => /\ FirstConsumption(Handle(DB, JoinByTokenRequest(u, k)), k, u)
           /\ FirstConsumption(Handle(DB, LoginRequest(u, k)), k, u)

\* an editor of the tree has consumed a viewer invitation and is an editor
\* still, not granted anything through the invitation
C21_Witness ==
    /\ Answered("join_by_token")
    /\ Answer.ret \in TreeIds
    /\ IsEditor(Answer.ret, Answer.user)
    /\ ~IsViewer(Answer.ret, Answer.user)
    /\ \E k \in Tokens :
         /\ invitations[k].tree_id = Answer.ret
         /\ invitations[k].role = "viewer"
         /\ Contains(invitations[k].used_by_users, Answer.user)
         /\ Answer.user \notin granted[k]

\* both workers have answered share_tree with success, for two accounts
BothShared(w, v) ==
    /\ w # v
    /\ req[w].pc = "done" /\ req[w].route = "share_tree" /\ req[w].status = 200
    /\ req[v].pc = "done" /\ req[v].route = "share_tree" /\ req[v].status = 200
    /\ req[w].target # req[v].target

\* user x is in editor_ids or viewer_ids of some tree
Listed(x) == \E t \in TreeIds : IsEditor(t, x) \/ IsViewer(t, x)

C23_TwoProcesses ==
    \A t \in TreeIds, u \in Users, v \in Users :
        /\ Free
        /\ get_tree_and_user_permissions(DB, t, u).can_edit
        /\ get_tree_and_user_permissions(DB, t, v).can_edit
        /\ \A p \in Processes : new_ids_dict[p][t] = 0
        /\ MaxPersonId(DB, t) < MaxId
        => LET first == Handle(DB, OnProcess(GetNewIdRequest(u, t), "p1"))
               second == Handle(first.db, OnProcess(GetNewIdRequest(v, t), "p2"))
           IN  /\ first.r.status = 200
               /\ second.r.status = 200
               /\ first.r.id = second.r.id

\* two requests served by one process have been answered with the same
\* identifier for the same tree
C23_Witness ==
    \E w \in Workers, v \in Workers :
        /\ w # v
        /\ req[w].pc = "done" /\ req[w].route = "get_new_id" /\ req[w].status = 200
        /\ req[v].pc = "done" /\ req[v].route = "get_new_id" /\ req[v].status = 200
        /\ req[w].proc = req[v].proc
        /\ req[w].tree = req[v].tree
        /\ req[w].id = req[v].id

\* the locals of request r when its handler, started in store db, comes to
\* phase pc or to its response
RECURSIVE RunTo(_, _, _)
RunTo(db, r, pc) ==
    IF r.pc \in {pc, "done"} THEN Out(db, r)
    ELSE LET o == Phase(db, r) IN RunTo(o.db, o.r, pc)

\* the urls person data p refers to
Refs(p) == {p.photo.url} \cup p.documents

\* the urls under tree t's file prefix among urls
UnderPrefix(urls, t) == {url \in urls : url # NoUrl /\ StartsWith(url, api_file_prefix(t))}

\* what the specification schedules for person new of a batch on tree t,
\* as urls: the old photo when it is not the new photo, and the old
\* documents that are not among the new ones
ModifiedUrls(old, new, t) ==
    UnderPrefix((IF old.photo # new.photo THEN {old.photo.url} ELSE {})
                    \cup (old.documents \ new.documents), t)

\* C24 (refuted by the code): the files a batch schedules for removal are,
\* for a modified person found in the table, the old photo when it differs
\* from the new one and the old documents absent from the new ones, and for
\* a deleted person its photo and all its documents, of the urls under the
\* tree's file prefix only; and no file the modified person's new data
\* still refers to is scheduled.
C24_ScheduledExactly ==
    \A t \in TreeIds :
        Free =>
            /\ \A new \in BatchPersons :
                 LET r == BatchUpdatePersonsRequest(Editor, t, <<>>, <<new>>, <<>>)
                     o == RunTo(DB, r, "batch_update_persons_rpc")
                 IN  new.id \in DOMAIN persons[t] /\ o.r.pc # "done" =>
                         LET old == persons[t][new.id]
                         IN  /\ o.r.files_to_delete =
                                    {PathOfUrl(url, t) : url \in ModifiedUrls(old, new, t)}
                             /\ \A url \in Refs(new) :
                                    url # NoUrl /\ StartsWith(url, api_file_prefix(t)) =>
                                        PathOfUrl(url, t) \notin o.r.files_to_delete
            /\ \A i \in PersonIds :
                 LET r == BatchUpdatePersonsRequest(Editor, t, <<>>, <<>>, <<i>>)
                     o == RunTo(DB, r, "batch_update_persons_rpc")
                 IN  i \in DOMAIN persons[t] =>
                         /\ o.r.pc # "done"
                         /\ o.r.files_to_delete =
                                {PathOfUrl(url, t) : url \in UnderPrefix(Refs(persons[t][i]), t)}

\* the editor's batches of one person to add, to modify or to delete
SingleBatches(t) ==
    {BatchUpdatePersonsRequest(Editor, t, <<p>>, <<>>, <<>>) : p \in BatchPersons}
      \cup {BatchUpdatePersonsRequest(Editor, t, <<>>, <<p>>, <<>>) : p \in BatchPersons}
      \cup {BatchUpdatePersonsRequest(Editor, t, <<>>, <<>>, <<i>>) : i \in PersonIds}

\* C25: in batch_update_persons the stored files are removed only after
\* batch_update_persons_atomic has succeeded. A batch whose rpc call fails
\* is answered 500 and no stored file is removed and no person row is
\* added, modified or deleted; and a batch after which a stored file is
\* gone has had its persons applied by the rpc.
C25_RemovalAfterRpc ==
    \A t \in TreeIds : \A r \in SingleBatches(t) :
        Free =>
            /\ RunTo(DB, r, "batch_update_persons_rpc").r.pc # "done" =>
                   LET o == Handle(DB, Failing(r, "rpc"))
                   IN  o.r.status = 500 /\ o.db = DB
            /\ \A call \in BatchCalls :
                   LET o == Handle(DB, Failing(r, call))
                   IN  /\ o.db.files # files =>
                          /\ call # "rpc"
                          /\ o.r.status = 200
                          /\ o.db.persons[t] =
                                RpcRows(persons[t], r.add, r.modify, r.delete)
                       /\ o.r.status = 500 /\ call # "remove" => o.db = DB

\* a batch whose rpc call failed was answered 500, and the person whose
\* photo is stored and the stored photo are there
C25_Witness ==
    /\ Answered("batch_update_persons")
    /\ Answer.status = 500
    /\ Answer.fail = "rpc"
    /\ \E i \in DOMAIN persons[Answer.tree] :
         /\ persons[Answer.tree][i].photo = StrPhoto(OwnImage)
         /\ PathOfUrl(OwnImage, Answer.tree) \in files

\* C26 (refuted by the code): whatever person data the editor of tree t
\* has stored, a batch on t removes no stored object whose path is not
\* under t's identifier, the urls that name another tree's object after
\* t's file prefix included.
C26_RemovesOwnFilesOnly ==
    \A t \in TreeIds : \A r \in SingleBatches(t) :
        Free =>
            \A f \in files \ Handle(DB, r).db.files : f[1] = t

\* the phases of process_invitation, each with one remote call
InvitationCalls ==
    {"process_invitation", "process_invitation_tree",
     "process_invitation_grant", "process_invitation_used"}

\* C27 (refuted by the code): whenever process_invitation returns None, for
\* an invalid, expired or exhausted invitation or because one of its remote
\* calls raises, the tree's editor_ids and viewer_ids and the invitation's
\* used_by_users are unchanged.
C27_NoneChangesNothing ==
    \A k \in Tokens, u \in Users, call \in InvitationCalls \cup {"none"} :
        Free =>
            LET o == HandleRaising(DB, LoginRequest(u, k), call)
            IN  o.r.ret \notin TreeIds =>
                    o.db.trees = trees /\ o.db.invitations = invitations

\* the requests user u can make about tree t and invitation k
RequestsOf(u, t, k) ==
    {ShareTreeRequest(u, t, x, role) : x \in Users, role \in Roles}
      \cup {ChangeTreePermissionRequest(u, t, x, role) : x \in Users, role \in Roles}
      \cup {RevokeTreeAccessRequest(u, t, x) : x \in Users}
      \cup {CreateInvitationRequest(u, t, role, NoLimit) : role \in Roles}
      \cup {ExpireInvitationLinkRequest(u, t, k),
            JoinByTokenRequest(u, k), LoginRequest(u, k)}

\* request r took user x into editor_ids of tree t through the owner: the
\* owner's share or change of permission for x, or x's first use of an
\* editor invitation of t
ThroughOwner(r, t, x) ==
    \/ /\ r.user = trees[t].owner_id
       /\ r.route \in {"share_tree", "change_tree_permission"}
       /\ r.target = x
       /\ r.role = "editor"
    \/ /\ r.route \in {"join_by_token", "login"}
       /\ r.user = x
       /\ invitations[r.token].tree_id = t
       /\ invitations[r.token].role = "editor"
       /\ InvitationCheck(invitations[r.token], x, now) = "first"

\* C28: edit rights come from the owner only. Whatever request any user
\* makes next: the owner of an existing tree stays; a user who enters
\* editor_ids (a viewer moved to editor among them) does so by the owner's
\* share or change of permission, or by a first use of an editor invitation
\* of the tree; an invitation is created by the owner of its tree alone and
\* keeps its tree and role; and a new tree has its creator as owner and no
\* editor. So no requests of non-owners without such an invitation give
\* anybody can_edit.
C28_EditOnlyThroughOwner ==
    \A u \in Users, t \in TreeIds, k \in Tokens :
        Free =>
            \A r \in RequestsOf(u, t, k) \cup {CreateTreeRequest(u, "Smith", FALSE)} :
                LET o == Handle(DB, r)
                    after == o.db.trees[t]
                IN  /\ trees[t].exists =>
                        /\ after.exists /\ after.owner_id = trees[t].owner_id
                        /\ \A y \in Users :
                             Contains(after.editor_ids, y)
                               /\ ~Contains(trees[t].editor_ids, y)
                             => ThroughOwner(r, t, y)
                    /\ ~trees[t].exists /\ after.exists =>
                        after.owner_id = u /\ after.editor_ids = <<>>
                    /\ \A j \in Tokens :
                         LET row == o.db.invitations[j]
                         IN  IF invitations[j].exists
                             THEN /\ row.exists
                                  /\ row.tree_id = invitations[j].tree_id
                                  /\ row.role = invitations[j].role
                             ELSE row.exists =>
                                  /\ r.route = "create_invitation"
                                  /\ trees[row.tree_id].owner_id = u

\* a user who was no member became an editor by an editor invitation
C28_Witness ==
    /\ Answered("join_by_token")
    /\ Answer.ret \in TreeIds
    /\ IsEditor(Answer.ret, Answer.user)
    /\ \E k \in Tokens :
         /\ invitations[k].role = "editor"
         /\ invitations[k].tree_id = Answer.ret
         /\ Answer.user \in granted[k]

\* ------------------------------------------------------------------------ home
\* the home page's filter of the owner's invitations: the rows the select
\* returns (expires_at > now) that are not full
home_active_invitation(invitation, time) ==
    LET used_count == Len(invitation.used_by_users)
    IN  /\ invitation.exists
        /\ invitation.expires_at > time
        /\ \/ invitation.usage_limit = NoLimit
           \/ used_count < invitation.usage_limit[1]

\* process_invitation's expiry and usage-limit tests let the row through
ProcessAccepts(invitation, time) ==
    InvitationCheck(invitation, NoUser, time) \notin {"invalid", "expired", "full"}

\* join_by_token's test and process_invitation's tests accept the same rows
JoinAgreesWithProcess ==
    \A k \in Tokens :
        ~JoinRefused(invitations[k], now) <=> ProcessAccepts(invitations[k], now)

\* the home page lists the rows the other two accept, but for the instant
\* expires_at = now
HomeAgreesButAtTheInstant ==
    \A k \in Tokens :
        invitations[k].exists /\ invitations[k].expires_at # now =>
            (home_active_invitation(invitations[k], now)
               <=> ProcessAccepts(invitations[k], now))

\* C29: the three validity tests of an invitation agree for every
\* expires_at, clock, usage_limit and used_by_users, the instant
\* expires_at = now included: join_by_token accepts the row iff
\* process_invitation's expiry and usage-limit tests accept it iff the home
\* page lists it as active.
C29_ThreeTestsAgree ==
    \A k \in Tokens :
        invitations[k].exists =>
            /\ ~JoinRefused(invitations[k], now)
                  <=> ProcessAccepts(invitations[k], now)
            /\ ProcessAccepts(invitations[k], now)
                  <=> home_active_invitation(invitations[k], now)

\* ---------------------------------------------------------------- after a revoke
IsMember(tree, x) == Contains(tree.editor_ids, x) \/ Contains(tree.viewer_ids, x)

\* request r may give user x a place in tree t again: the owner's share for
\* x, or x's use of an invitation x had not used before
MayRestore(r, t, x) ==
    \/ r.route = "share_tree" /\ r.user = trees[t].owner_id /\ r.target = x
    \/ /\ r.route \in {"join_by_token", "login"}
       /\ r.user = x
       /\ r.token \in Tokens
       /\ ~Contains(invitations[r.token].used_by_users, x)

\* with requests served one at a time: a revoke answered 200 leaves the
\* user in neither list; a user who is in neither list enters one only by a
\* request that may restore them; and a token the user has used changes no
\* list
RevokedStaysOutSerial ==
    \A u \in Users, t \in TreeIds, k \in Tokens, x \in Users :
        Free /\ trees[t].exists =>
            /\ LET o == Handle(DB, RevokeTreeAccessRequest(u, t, x))
               IN  o.r.status = 200 => ~IsMember(o.db.trees[t], x)
            /\ \A r \in RequestsOf(u, t, k) :
                 \A y \in Users :
                     ~IsMember(trees[t], y)
                       /\ IsMember(Handle(DB, r).db.trees[t], y)
                     => MayRestore(r, t, y)
            /\ Contains(invitations[k].used_by_users, x) =>
                 /\ Handle(DB, JoinByTokenRequest(x, k)).db.trees = trees
                 /\ Handle(DB, LoginRequest(x, k)).db.trees = trees

\* C30: after the owner's revoke_tree_access of a user is answered 200, the
\* user is in neither editor_ids nor viewer_ids, and is put back into one of
\* them only by the owner's share for that user or by the user's own use of
\* an invitation they had not used before. Stated for the steps taken while
\* the answer to the revoke is still with its worker.
C30_RevokedStaysOut ==
    [][\A w \in Workers :
          LET a == req[w]
          IN  /\ a.pc = "done" /\ a.route = "revoke_tree_access"
              /\ a.status = 200
              /\ ~IsMember(trees[a.tree], a.target)
              /\ IsMember(trees'[a.tree], a.target)
              => \E v \in Workers \ {w} :
                     MayRestore(req[v], a.tree, a.target)]_vars

====
